---- MODULE Spec2Model ----
(***************************************************************************)
(* TripMind backend: the Amadeus credential session (refreshToken,         *)
(* getToken), the marketplace client (SearchFlights, SearchHotels), the    *)
(* fallback synthesizer, the recommendation step and SearchHandler, which  *)
(* orchestrates them.                                                      *)
(*                                                                         *)
(* Time is counted in whole seconds.  Strings the code only compares are   *)
(* TLA+ strings; strings the code takes apart are sequences of characters. *)
(***************************************************************************)
EXTENDS Integers, Sequences, FiniteSets, TLC

(***************************************************************************)
(* Bounds of the model.                                                    *)
(***************************************************************************)
\* The clock runs from 0 to MaxTime seconds.
MaxTime == 3
\* A token exchange takes between 0 and MaxDelay seconds; the provider issues
\* the token when the request reaches it, the caller stores it on return.
MaxDelay == 1
\* Number of search requests served in one run.
MaxSearches == 2
\* Number of token exchanges the concurrent callers issue in one run.
MaxExchanges == 2
\* Longest list handed to a function that is called on its own.
MaxList == 3

(***************************************************************************)
(* Program constants.                                                      *)
(***************************************************************************)
\* amadeus.go:130  time.Duration(result.ExpiresIn-30) * time.Second
TokenMargin == 30
\* amadeus.go:334  if len(hotelIDs) > 20 { hotelIDs = hotelIDs[:20] }
MaxHotelIDs == 20

VARIABLES
    \* --- AmadeusClient (amadeus.go:48-56) and the package variable (58)
    amadeusClient,   \* "nil" before InitAmadeus, "set" after
    clientID,        \* c.clientID
    clientSecret,    \* c.clientSecret
    accessToken,     \* c.accessToken
    tokenExpiry,     \* c.tokenExpiry, in seconds
    mu,              \* c.mu: "free" or the caller holding it
    \* --- AIClient (part_003:13-17)
    apiKey,          \* c.apiKey
    \* --- the world
    now,             \* the wall clock, seconds
    providerExpiry,  \* history: issue time + expires_in of the cached token
    \* --- one SearchHandler invocation (part_004:33-187)
    pc,              \* position of the handler
    req,             \* the validated SearchRequest
    flights,         \* var flights []services.Flight
    hotels,          \* var hotels []services.Hotel
    isFallback,      \* isFallback
    source,          \* source
    flightsCall,     \* (liveFlights, err) of SearchFlights, not called before it
    hotelsCall,      \* (liveHotels, err) of SearchHotels, not called before it
    hotelIDs,        \* hotelIDs inside SearchHotels
    listedIDs,       \* history: the hotel IDs the hotel-list answer carried
    tok,             \* (token, err) of the last getToken, whether it exchanged,
                     \* the provider's answer if it did, and where it was called
    aiCall,          \* (aiSummary, err) of GetRecommendations, not called before it,
                     \* and the provider's answer if a request was sent
    aiSummary,       \* aiSummary
    response,        \* what c.JSON sent, status 0 before it
    reqLog,          \* history: outbound HTTP requests of this search request
    served,          \* history: number of search requests started
    \* --- concurrent callers of getToken (amadeus.go:136-151)
    cpc,             \* position of each caller
    cExpired,        \* local expired
    cToken,          \* local token
    cResult,         \* local result of the exchange
    cSeen,           \* history: writers of the fields a caller read
    exchanges,       \* history: number of exchanges the callers issued
    tokenWriter,     \* history: the exchange that wrote accessToken
    expiryWriter,    \* history: the exchange that wrote tokenExpiry
    \* --- one call of a function of the services package, on its own
    fnCall,          \* the function called and its arguments
    fnResult,        \* what it returned
    \* --- the database (part_000:91-113) and the handlers that use it
    dbSearches,      \* the rows of table searches
    dbItineraries,   \* the rows of table itineraries
    saving,          \* a SearchHandler between its two saves (part_004:148-178)
    generating,      \* a GenerateHandler invocation (itinerary.go:28-124)
    genResponse      \* what the last GenerateHandler sent, status 0 before it

clientVars == <<amadeusClient, clientID, clientSecret, accessToken, tokenExpiry, mu, apiKey>>
worldVars == <<now, providerExpiry>>
handlerVars == <<pc, req, flights, hotels, isFallback, source, flightsCall, hotelsCall,
                 hotelIDs, listedIDs, tok, aiCall, aiSummary, response, reqLog, served>>
callerVars == <<cpc, cExpired, cToken, cResult, cSeen, exchanges, tokenWriter, expiryWriter>>
fnVars == <<fnCall, fnResult>>
dbVars == <<dbSearches, dbItineraries, saving, generating, genResponse>>
vars == <<clientVars, worldVars, handlerVars, callerVars, fnVars, dbVars>>

(***************************************************************************)
(* Text.  A string the code takes apart (a duration, a price, a rating) is *)
(* a sequence of one-character strings.                                    *)
(* Decimal numbers (prices, ratings) are counted in hundredths.            *)
(***************************************************************************)
Digits == <<"0", "1", "2", "3", "4", "5", "6", "7", "8", "9">>

IsDigit(c) == \E i \in 1..10 : Digits[i] = c

DigitVal(c) == (CHOOSE i \in 1..10 : Digits[i] = c) - 1

RECURSIVE Itoa(_)
\* fmt's %d of a non-negative int
Itoa(n) == IF n < 10 THEN <<Digits[n + 1]>> ELSE Itoa(n \div 10) \o <<Digits[(n % 10) + 1]>>

\* strings.Index(s, c) for a one-character c: 0-based, -1 when absent
Index(s, c) ==
    IF \E i \in 1..Len(s) : s[i] = c
    THEN (CHOOSE i \in 1..Len(s) : s[i] = c /\ \A j \in 1..(i - 1) : s[j] # c) - 1
    ELSE -1

\* Go's s[lo:hi] (0-based, hi exclusive)
Slice(s, lo, hi) == SubSeq(s, lo + 1, hi)

\* strings.TrimPrefix(s, "PT")
TrimPrefixPT(s) ==
    IF Len(s) >= 2 /\ s[1] = "P" /\ s[2] = "T" THEN Slice(s, 2, Len(s)) ELSE s

\* parseDuration with a plausible fault: no space between the two parts
parseDurationNoSpace(iso) ==
    IF iso = <<>> THEN <<>>
    ELSE LET iso1 == TrimPrefixPT(iso)
             hIdx == Index(iso1, "H")
             res1 == IF hIdx >= 0 THEN Slice(iso1, 0, hIdx) \o <<"h">> ELSE <<>>
             iso2 == IF hIdx >= 0 THEN Slice(iso1, hIdx + 1, Len(iso1)) ELSE iso1
             mIdx == Index(iso2, "M")
         IN  IF mIdx >= 0 /\ mIdx < Len(iso2)
             THEN res1 \o Slice(iso2, 0, mIdx) \o <<"m">>
             ELSE res1

\* amadeus.go:604  parseDuration: "PT5H30M" -> "5h 30m"
parseDuration(iso) ==
    IF iso = <<>> THEN <<>>
    ELSE LET iso1 == TrimPrefixPT(iso)
             hIdx == Index(iso1, "H")
             res1 == IF hIdx >= 0 THEN Slice(iso1, 0, hIdx) \o <<"h">> ELSE <<>>
             iso2 == IF hIdx >= 0 THEN Slice(iso1, hIdx + 1, Len(iso1)) ELSE iso1
             mIdx == Index(iso2, "M")
         IN  IF mIdx >= 0 /\ mIdx < Len(iso2)
             THEN (IF res1 # <<>> THEN res1 \o <<" ">> ELSE res1)
                      \o Slice(iso2, 0, mIdx) \o <<"m">>
             ELSE res1

\* amadeus.go:626  formatDurationMin
formatDurationMin(minutes) ==
    LET h == minutes \div 60
        m == minutes % 60
    IN  IF m > 0 THEN Itoa(h) \o <<"h", " ">> \o Itoa(m) \o <<"m">>
        ELSE Itoa(h) \o <<"h">>

RECURSIVE DigitRun(_, _)
\* the longest run of digits of s that starts at position i (1-based)
DigitRun(s, i) ==
    IF i <= Len(s) /\ IsDigit(s[i]) THEN <<s[i]>> \o DigitRun(s, i + 1) ELSE <<>>

RECURSIVE DigitsValue(_)
DigitsValue(ds) ==
    IF ds = <<>> THEN 0 ELSE DigitsValue(SubSeq(ds, 1, Len(ds) - 1)) * 10 + DigitVal(ds[Len(ds)])

\* fmt.Sscanf(s, "%f", &v) with v zero before the call: the value of the longest
\* prefix [sign] digits [. digits], in hundredths; 0 when no number starts s.
\* (The strings drawn here carry no exponent and at most two decimals.)
ScanFloat(s) ==
    LET neg == Len(s) >= 1 /\ s[1] = "-"
        pos == Len(s) >= 1 /\ s[1] = "+"
        start == IF neg \/ pos THEN 2 ELSE 1
        ip == DigitRun(s, start)
        dot == start + Len(ip)
        fp == IF dot <= Len(s) /\ s[dot] = "." THEN DigitRun(s, dot + 1) ELSE <<>>
        frac == IF Len(fp) = 0 THEN 0
                ELSE IF Len(fp) = 1 THEN DigitVal(fp[1]) * 10
                ELSE DigitVal(fp[1]) * 10 + DigitVal(fp[2])
        mag == DigitsValue(ip) * 100 + frac
    IN  IF Len(ip) = 0 /\ Len(fp) = 0 THEN 0
        ELSE IF neg THEN 0 - mag ELSE mag

\* amadeus.go:635  parsePrice
parsePrice(s) == ScanFloat(s)

\* parseRating with a plausible fault: a rating above 5 is not cut back
parseRatingUnclamped(s) ==
    IF s = <<>> THEN 400
    ELSE LET r == ScanFloat(s)
         IN  IF r <= 0 THEN 400 ELSE r

\* amadeus.go:641  parseRating
parseRating(s) ==
    IF s = <<>> THEN 400
    ELSE LET r == ScanFloat(s)
         IN  IF r <= 0 THEN 400
             ELSE IF r > 500 THEN 500
             ELSE r

\* amadeus.go:657  max
max(a, b) == IF a > b THEN a ELSE b

\* amadeus.go:665  airportToCity
airportToCity(airport) ==
    LET mapping ==
          [a \in {"LHR", "LGW", "STN", "LTN", "CDG", "ORY", "JFK", "LGA", "EWR", "LAX",
                  "DXB", "IST", "FRA", "AMS", "BER", "SXF", "MAD", "BCN", "FCO", "CIA",
                  "TAS", "NRT", "HND", "SIN", "BKK"} |->
             CASE a \in {"LHR", "LGW", "STN", "LTN"} -> "LON"
               [] a \in {"CDG", "ORY"} -> "PAR"
               [] a \in {"JFK", "LGA", "EWR"} -> "NYC"
               [] a \in {"BER", "SXF"} -> "BER"
               [] a \in {"FCO", "CIA"} -> "ROM"
               [] a \in {"NRT", "HND"} -> "TYO"
               [] OTHER -> a]
    IN  IF airport \in DOMAIN mapping THEN mapping[airport] ELSE airport

\* amadeus.go:691  airlineName
airlineName(code) ==
    LET names ==
          ("TK" :> "Turkish Airlines") @@ ("LH" :> "Lufthansa") @@ ("AF" :> "Air France")
          @@ ("BA" :> "British Airways") @@ ("EK" :> "Emirates") @@ ("QR" :> "Qatar Airways")
          @@ ("PC" :> "Pegasus Airlines") @@ ("FR" :> "Ryanair") @@ ("U2" :> "EasyJet")
          @@ ("W6" :> "Wizz Air") @@ ("FZ" :> "FlyDubai") @@ ("HY" :> "Uzbekistan Airways")
          @@ ("UA" :> "United Airlines") @@ ("AA" :> "American Airlines")
          @@ ("DL" :> "Delta Air Lines") @@ ("KL" :> "KLM") @@ ("IB" :> "Iberia")
          @@ ("AZ" :> "ITA Airways") @@ ("OS" :> "Austrian Airlines")
          @@ ("LX" :> "Swiss International Air Lines") @@ ("SQ" :> "Singapore Airlines")
          @@ ("CX" :> "Cathay Pacific") @@ ("NH" :> "ANA") @@ ("JL" :> "Japan Airlines")
          @@ ("EY" :> "Etihad Airways") @@ ("SV" :> "Saudi Arabian Airlines")
          @@ ("MS" :> "EgyptAir") @@ ("RJ" :> "Royal Jordanian")
          @@ ("ET" :> "Ethiopian Airlines") @@ ("KQ" :> "Kenya Airways")
          @@ ("SA" :> "South African Airways")
    IN  IF code \in DOMAIN names THEN names[code]
        ELSE IF code # "" THEN code \o " Airlines"
        ELSE "Unknown Airline"


(***************************************************************************)
(* Canonical models (amadeus.go:19-44).  Price and Rating are counted in   *)
(* hundredths.  A timestamp is <<day, minute of the day>>, the empty       *)
(* string is <<>>; a calendar date is its day number.                      *)
(***************************************************************************)
\* amadeus.go:19  type Flight
MkFlight(price, airline, code, number, dep, arr, dur, stops, rdep, rarr, rdur, rstops, cur) ==
    [Price |-> price, Airline |-> airline, AirlineCode |-> code, FlightNumber |-> number,
     DepartureTime |-> dep, ArrivalTime |-> arr, Duration |-> dur, Stops |-> stops,
     ReturnDepartureTime |-> rdep, ReturnArrivalTime |-> rarr, ReturnDuration |-> rdur,
     ReturnStops |-> rstops, BookingLink |-> "", Currency |-> cur]

\* amadeus.go:36  type Hotel, as the fallback tables fill it (538)
MkHotel(name, price, rating, location) ==
    [Name |-> name, HotelID |-> "", Price |-> price, Rating |-> rating,
     Location |-> location, BookingLink |-> "", Currency |-> "USD"]

\* time.Date(y, m, d, hour, 0, 0, 0, time.UTC).Add(minutes) as <<day, minute>>
TimeAt(day, hour, minutes) ==
    <<day + ((hour * 60 + minutes) \div 1440), (hour * 60 + minutes) % 1440>>

(***************************************************************************)
(* Fallback synthesizer (amadeus.go:455-599).                              *)
(***************************************************************************)
\* amadeus.go:458  routeInfo; basePrice in whole currency units, duration in minutes
Route(basePrice, duration) == [basePrice |-> basePrice, duration |-> duration]

\* amadeus.go:463  routes
routes ==
          ("TAS-IST" :> Route(280, 300)) @@ ("IST-TAS" :> Route(280, 300))
          @@ ("TAS-DXB" :> Route(320, 210)) @@ ("DXB-TAS" :> Route(320, 210))
          @@ ("TAS-FRA" :> Route(450, 420)) @@ ("FRA-TAS" :> Route(450, 420))
          @@ ("TAS-LHR" :> Route(500, 480)) @@ ("LHR-TAS" :> Route(500, 480))
          @@ ("TAS-CDG" :> Route(480, 450)) @@ ("CDG-TAS" :> Route(480, 450))
          @@ ("BER-PAR" :> Route(120, 105)) @@ ("PAR-BER" :> Route(120, 105))
          @@ ("BER-LHR" :> Route(100, 100)) @@ ("LHR-BER" :> Route(100, 100))
          @@ ("IST-DXB" :> Route(250, 240)) @@ ("DXB-IST" :> Route(250, 240))
          @@ ("LHR-JFK" :> Route(450, 480)) @@ ("JFK-LHR" :> Route(450, 480))
          @@ ("LHR-CDG" :> Route(80, 75)) @@ ("CDG-LHR" :> Route(80, 75))
          @@ ("FRA-IST" :> Route(150, 165)) @@ ("IST-FRA" :> Route(150, 165))

\* amadeus.go:480  info = routeInfo{350, 240}
DefaultRoute == Route(350, 240)

\* amadeus.go:489  options; priceMod in hundredths
options ==
    << [name |-> "Turkish Airlines", priceMod |-> 100, stops |-> 0],
       [name |-> "Lufthansa", priceMod |-> 115, stops |-> 0],
       [name |-> "Emirates", priceMod |-> 130, stops |-> 0],
       [name |-> "Wizz Air", priceMod |-> 65, stops |-> 1],
       [name |-> "FlyDubai", priceMod |-> 80, stops |-> 1] >>

\* amadeus.go:502-503  int(basePrice*priceMod/5) in float64.  The float64 nearest
\* to 1.15 lies below 1.15; of the base prices of the route table only 100 gives
\* a product (114.99999999999999) that rounding does not lift back onto the
\* exact 115, so its quotient by 5 truncates to 22.  Every other product of the
\* table truncates as the exact one does.
Float64Steps(basePrice, priceMod) ==
    IF basePrice = 100 /\ priceMod = 115 THEN 22
    ELSE (basePrice * priceMod) \div 500

\* FallbackPrice with a plausible fault: the modifier is truncated to an int
\* before the product
FallbackPriceIntMod(basePrice, priceMod) ==
    ((basePrice * (priceMod \div 100)) \div 5) * 5 * 100

\* amadeus.go:503  price = float64(int(price/5)*5), in hundredths
FallbackPrice(basePrice, priceMod) == Float64Steps(basePrice, priceMod) * 5 * 100

\* amadeus.go:457  GenerateFlightsFallback
GenerateFlightsFallback(origin, destination, departureDate, returnDate) ==
    LET key == origin \o "-" \o destination
        info == IF key \in DOMAIN routes THEN routes[key] ELSE DefaultRoute
    IN  [n \in 1..Len(options) |->
           LET i == n - 1
               opt == options[n]
               dur == IF opt.stops > 0 THEN info.duration + 90 ELSE info.duration
               depHour == 6 + i * 3
               retHour == 8 + i * 2
           IN  MkFlight(FallbackPrice(info.basePrice, opt.priceMod), opt.name, "", "",
                        TimeAt(departureDate, depHour, 0), TimeAt(departureDate, depHour, dur),
                        formatDurationMin(dur), opt.stops,
                        TimeAt(returnDate, retHour, 0), TimeAt(returnDate, retHour, dur),
                        formatDurationMin(dur), opt.stops, "")]

\* amadeus.go:536  cityHotels
cityHotels ==
          ("IST" :> <<MkHotel("Grand Hyatt Istanbul", 18000, 470, "Beyoglu, Istanbul"),
                MkHotel("Hilton Istanbul Bosphorus", 16500, 450, "Besiktas, Istanbul"),
                MkHotel("Sultan Ahmet Palace Hotel", 9500, 430, "Sultanahmet, Istanbul"),
                MkHotel("Ibis Istanbul Taksim", 7500, 400, "Taksim, Istanbul"),
                MkHotel("The Marmara Taksim", 14000, 440, "Taksim Square, Istanbul")>>)
          @@ ("CDG" :> <<MkHotel("Hotel Le Marais", 22000, 460, "Le Marais, Paris"),
                MkHotel("Pullman Paris Tour Eiffel", 28000, 450, "7th Arr., Paris"),
                MkHotel("Ibis Paris Montmartre", 9500, 400, "Montmartre, Paris"),
                MkHotel("Hotel des Arts Montmartre", 13000, 430, "18th Arr., Paris"),
                MkHotel("Generator Paris", 5500, 380, "10th Arr., Paris")>>)
          @@ ("PAR" :> <<MkHotel("Hotel Le Marais", 22000, 460, "Le Marais, Paris"),
                MkHotel("Pullman Paris Tour Eiffel", 28000, 450, "7th Arr., Paris"),
                MkHotel("Ibis Paris Montmartre", 9500, 400, "Montmartre, Paris"),
                MkHotel("Hotel des Arts Montmartre", 13000, 430, "18th Arr., Paris")>>)
          @@ ("LHR" :> <<MkHotel("Hilton London Tower Bridge", 18000, 440, "Tower Bridge, London"),
                MkHotel("Premier Inn London City", 9500, 410, "City of London"),
                MkHotel("The Hoxton Shoreditch", 16500, 450, "Shoreditch, London"),
                MkHotel("Generator London", 5000, 380, "Russell Square, London"),
                MkHotel("citizenM London Bankside", 14500, 440, "Bankside, London")>>)
          @@ ("DXB" :> <<MkHotel("JW Marriott Marquis", 22000, 460, "Business Bay, Dubai"),
                MkHotel("Rove Downtown", 9500, 430, "Downtown Dubai"),
                MkHotel("Premier Inn Dubai", 6500, 400, "Ibn Battuta, Dubai"),
                MkHotel("Atlantis The Palm", 38000, 470, "Palm Jumeirah, Dubai"),
                MkHotel("Hilton Dubai Al Habtoor City", 16000, 440, "Dubai Marina")>>)
          @@ ("FRA" :> <<MkHotel("Marriott Frankfurt City Center", 15500, 440, "Sachsenhausen, Frankfurt"),
                MkHotel("Motel One Frankfurt-Romer", 8900, 430, "Romer, Frankfurt"),
                MkHotel("Hilton Frankfurt City Centre", 17500, 450, "City Centre, Frankfurt"),
                MkHotel("Generator Frankfurt", 4500, 390, "Sachsenhausen, Frankfurt"),
                MkHotel("Steigenberger Frankfurter Hof", 28000, 460, "Kaiserplatz, Frankfurt")>>)
          @@ ("BER" :> <<MkHotel("Hotel Adlon Kempinski", 32000, 480, "Mitte, Berlin"),
                MkHotel("Radisson Blu Berlin", 15000, 440, "Alexanderplatz, Berlin"),
                MkHotel("Motel One Berlin Hackescher Markt", 8500, 420, "Mitte, Berlin"),
                MkHotel("Generator Berlin Mitte", 4500, 390, "Mitte, Berlin"),
                MkHotel("Michelberger Hotel", 13000, 450, "Friedrichshain, Berlin")>>)

\* GenerateHotelsFallback with a plausible fault: no generic list for a
\* destination outside the catalog
GenerateHotelsFallbackCatalogOnly(destination) ==
    IF destination \in DOMAIN cityHotels THEN cityHotels[destination] ELSE <<>>

\* amadeus.go:535  GenerateHotelsFallback
GenerateHotelsFallback(destination) ==
    IF destination \in DOMAIN cityHotels THEN cityHotels[destination]
    ELSE << MkHotel("Grand City Hotel", 15000, 450, "City Center, " \o destination),
            MkHotel("Business Inn", 9500, 420, "Business District, " \o destination),
            MkHotel("Boutique Residence", 12000, 440, "Arts District, " \o destination),
            MkHotel("Economy Suites", 6500, 390, "Near Airport, " \o destination),
            MkHotel("Luxury Collection", 24000, 470, "Historic Center, " \o destination) >>

(***************************************************************************)
(* Recommendation fallback (amadeus.go:734-769).                           *)
(***************************************************************************)
\* fmt's %.0f of a non-negative amount counted in hundredths: the nearest whole
\* number, a half going to the even neighbour (a multiple of 0.25 is an exact
\* float64, so the half is a true half)
Fmt0(x) ==
    LET q == x \div 100
        r == x % 100
    IN  IF r > 50 \/ (r = 50 /\ q % 2 = 1) THEN q + 1 ELSE q

\* fmt's %.1f of a rating counted in hundredths, in tenths (the ratings of the
\* model have one decimal, or end in .25 or .75, which are exact in float64)
Fmt1(x) ==
    LET q == x \div 10
        r == x % 10
    IN  IF r > 5 \/ (r = 5 /\ q % 2 = 1) THEN q + 1 ELSE q

RECURSIVE CheapestLastWins(_, _, _)
\* Cheapest with a plausible fault: <= in place of <, the last of equals wins
CheapestLastWins(list, best, i) ==
    IF i > Len(list) THEN best
    ELSE CheapestLastWins(list, IF list[i].Price <= best.Price THEN list[i] ELSE best, i + 1)

RECURSIVE Cheapest(_, _, _)
\* amadeus.go:740-745  the loop: cheapest so far `best`, next index i
Cheapest(list, best, i) ==
    IF i > Len(list) THEN best
    ELSE Cheapest(list, IF list[i].Price < best.Price THEN list[i] ELSE best, i + 1)

\* amadeus.go:737  the fixed message
Unable == [text |-> "Unable to provide recommendations at this time."]

\* amadeus.go:740, 747  flights[0] or hotels[0] of an empty slice: the Go run
\* time panics (index out of range)
IndexPanic == [text |-> "panic: runtime error: index out of range [0] with length 0"]

\* NothingToRecommend with a plausible fault: && in place of ||
NothingToRecommendBoth(fl, ho) == Len(fl) = 0 /\ Len(ho) = 0

\* amadeus.go:736  len(flights) == 0 || len(hotels) == 0
NothingToRecommend(fl, ho) == Len(fl) = 0 \/ Len(ho) = 0

\* amadeus.go:735  FallbackRecommendation.  The text is kept as what it states,
\* each number as its verb prints it: the two picks (%s, %.0f, %.1f), the total
\* (%.0f), the number of nights (%d), the budget verdict with the budget (%.0f)
\* and, when the budget is exceeded, the amount over (%.0f, line 759; the
\* sentence of line 757 names no amount).
FallbackRecommendation(budget, fl, ho, numNights) ==
    IF NothingToRecommend(fl, ho) THEN Unable
    ELSE IF Len(fl) = 0 \/ Len(ho) = 0 THEN IndexPanic
    ELSE LET cheapestFlight == Cheapest(fl, fl[1], 1)
             bestValueHotel == Cheapest(ho, ho[1], 1)
             total == cheapestFlight.Price + bestValueHotel.Price * numNights
         IN  [text |-> "Best value picks",
              airline |-> cheapestFlight.Airline, flightPrice |-> Fmt0(cheapestFlight.Price),
              stops |-> cheapestFlight.Stops,
              hotel |-> bestValueHotel.Name, hotelPrice |-> Fmt0(bestValueHotel.Price),
              rating |-> Fmt1(bestValueHotel.Rating),
              total |-> Fmt0(total), nights |-> numNights, budget |-> Fmt0(budget),
              verdict |-> IF total <= budget THEN "fits" ELSE "exceeds",
              over |-> IF total <= budget THEN <<>> ELSE <<Fmt0(total - budget)>>]


(***************************************************************************)
(* HTTP.  An answer to a request is a transport error, or a status with a  *)
(* body; a body is valid JSON of the expected shape carrying `data`, or is *)
(* not.                                                                    *)
(***************************************************************************)
NetErr == [neterr |-> TRUE, status |-> 0, valid |-> FALSE, data |-> <<>>]

Answer(status, valid, data) ==
    [neterr |-> FALSE, status |-> status, valid |-> valid, data |-> data]

\* amadeus.go:172-182  doRequest after the token: (respBody, err)
doRequestResult(ans) ==
    IF ans.neterr THEN [err |-> "transport", body |-> ans]
    ELSE IF ans.status < 200 \/ ans.status >= 300 THEN [err |-> "amadeus error", body |-> ans]
    ELSE [err |-> "", body |-> ans]

(***************************************************************************)
(* Marketplace client: parsing (amadeus.go:211-313, 342-451).              *)
(***************************************************************************)
\* amadeus.go:223-234  one segment of an itinerary
Segment(depAt, arrAt, carrier, number) ==
    [DepartureAt |-> depAt, ArrivalAt |-> arrAt, CarrierCode |-> carrier, Number |-> number]

\* amadeus.go:221-235  one itinerary
Itinerary(duration, segments) == [Duration |-> duration, Segments |-> segments]

\* amadeus.go:216  amadeusFlightOffer
FlightOffer(grandTotal, currency, itineraries, validating) ==
    [GrandTotal |-> grandTotal, Currency |-> currency, Itineraries |-> itineraries,
     ValidatingAirlineCodes |-> validating]

\* OfferSkipped with a plausible fault: < 0 in place of <= 0
OfferSkippedNegativeOnly(offer) ==
    Len(offer.Itineraries) < 1 \/ parsePrice(offer.GrandTotal) < 0

\* amadeus.go:248-255  the two `continue`s: the offer is skipped
OfferSkipped(offer) ==
    Len(offer.Itineraries) < 1 \/ parsePrice(offer.GrandTotal) <= 0

\* amadeus.go:257-307  one offer that is kept, as a Flight
OfferToFlight(offer) ==
    LET price == parsePrice(offer.GrandTotal)
        outbound == offer.Itineraries[1]
        hasReturn == Len(offer.Itineraries) >= 2
        nOut == Len(outbound.Segments)
        airlineCode ==
            IF nOut > 0 THEN outbound.Segments[1].CarrierCode
            ELSE IF Len(offer.ValidatingAirlineCodes) > 0 THEN offer.ValidatingAirlineCodes[1]
            ELSE ""
        nRet == IF hasReturn THEN Len(offer.Itineraries[2].Segments) ELSE 0
    IN  MkFlight(price, airlineName(airlineCode), airlineCode,
                 IF nOut > 0 THEN airlineCode \o outbound.Segments[1].Number ELSE "",
                 IF nOut > 0 THEN outbound.Segments[1].DepartureAt ELSE <<>>,
                 IF nOut > 0 THEN outbound.Segments[nOut].ArrivalAt ELSE <<>>,
                 parseDuration(outbound.Duration),
                 max(0, nOut - 1),
                 IF nRet > 0 THEN offer.Itineraries[2].Segments[1].DepartureAt ELSE <<>>,
                 IF nRet > 0 THEN offer.Itineraries[2].Segments[nRet].ArrivalAt ELSE <<>>,
                 IF hasReturn THEN parseDuration(offer.Itineraries[2].Duration) ELSE <<>>,
                 IF hasReturn THEN max(0, nRet - 1) ELSE 0,
                 offer.Currency)

RECURSIVE FlightsOf(_)
\* amadeus.go:247-310  the loop over resp.Data
FlightsOf(data) ==
    IF data = <<>> THEN <<>>
    ELSE (IF OfferSkipped(data[1]) THEN <<>> ELSE <<OfferToFlight(data[1])>>)
             \o FlightsOf(Tail(data))

\* amadeus.go:239  parseFlightOffers: (flights, err)
parseFlightOffers(body) ==
    IF ~body.valid THEN [err |-> "failed to parse flight offers", list |-> <<>>]
    ELSE [err |-> "", list |-> FlightsOf(body.data)]

\* amadeus.go:370-379  getHotelIDsByCity after doRequest: (ids, err);
\* an entry of resp.Data is kept as its HotelID
parseHotelList(body) ==
    IF ~body.valid THEN [err |-> "failed to parse hotel list", list |-> <<>>]
    ELSE [err |-> "", list |-> body.data]

\* LimitIDs with a plausible fault: the list is not cut
LimitIDsUncut(ids) == ids

\* amadeus.go:333-336  the first 20 IDs
LimitIDs(ids) == IF Len(ids) > MaxHotelIDs THEN SubSeq(ids, 1, MaxHotelIDs) ELSE ids

\* amadeus.go:383-402  one item of amadeusHotelOffersResponse.Data
HotelItem(id, name, cityCode, cityName, rating, available, offers) ==
    [HotelID |-> id, Name |-> name, CityCode |-> cityCode, CityName |-> cityName,
     Rating |-> rating, Available |-> available, Offers |-> offers]

\* amadeus.go:397-400  one offer of an item
HotelRate(total, currency) == [Total |-> total, Currency |-> currency]

\* amadeus.go:425-432  the two `continue`s
ItemSkipped(item) ==
    \/ ~item.Available
    \/ Len(item.Offers) = 0
    \/ parsePrice(item.Offers[1].Total) <= 0

\* amadeus.go:434-447  one item that is kept, as a Hotel
ItemToHotel(item) ==
    [Name |-> item.Name, HotelID |-> item.HotelID,
     Price |-> parsePrice(item.Offers[1].Total),
     Rating |-> parseRating(item.Rating),
     Location |-> IF item.CityName = "" THEN item.CityCode ELSE item.CityName,
     BookingLink |-> "", Currency |-> item.Offers[1].Currency]

RECURSIVE HotelsOf(_)
\* amadeus.go:424-448  the loop over resp.Data
HotelsOf(data) ==
    IF data = <<>> THEN <<>>
    ELSE (IF ItemSkipped(data[1]) THEN <<>> ELSE <<ItemToHotel(data[1])>>)
             \o HotelsOf(Tail(data))

\* amadeus.go:418-450  getHotelOffers after doRequest: (hotels, err)
parseHotelOffers(body) ==
    IF ~body.valid THEN [err |-> "failed to parse hotel offers", list |-> <<>>]
    ELSE [err |-> "", list |-> HotelsOf(body.data)]


(***************************************************************************)
(* What the environment may supply: the configuration, the requests and    *)
(* the providers' answers.                                                 *)
(***************************************************************************)
\* os.Getenv of the three secrets (amadeus.go:68-69, part_003:28)
ClientIDs == {"", "id"}
ClientSecrets == {"", "secret"}
ApiKeys == {"", "key"}

\* access_token and expires_in of a token answer (amadeus.go:120-123); an answer
\* that omits a field decodes to "" and 0
AccessTokens == {"", "tokA"}
ExpiresIns == {0, 31, 33}

TokenAnswers ==
    {NetErr, Answer(401, TRUE, <<>>), Answer(200, FALSE, <<>>)}
        \cup {Answer(200, TRUE, [AccessToken |-> t, ExpiresIn |-> e]) :
                 t \in AccessTokens, e \in ExpiresIns}

\* validated search requests (part_004:40-71); prices in hundredths
Requests ==
    {[Origin |-> r[1], Destination |-> r[2], DepartureDate |-> 10, ReturnDate |-> 13,
      Budget |-> b, Passengers |-> 1] :
        r \in {<<"BER", "LHR">>, <<"AAA", "ZZZ">>}, b \in {70000}}

Chars5H30M == <<"P", "T", "5", "H", "3", "0", "M">>
Chars2H == <<"P", "T", "2", "H">>
Chars45M == <<"P", "T", "4", "5", "M">>

OfferRoundTrip ==
    FlightOffer(<<"2", "4", "5", ".", "5", "0">>, "USD",
                <<Itinerary(Chars5H30M, <<Segment(<<10, 600>>, <<10, 700>>, "TK", "1980"),
                                          Segment(<<10, 800>>, <<10, 930>>, "TK", "17")>>),
                  Itinerary(Chars2H, <<Segment(<<13, 480>>, <<13, 600>>, "LH", "900")>>)>>,
                <<"TK">>)

OfferOneWay ==
    FlightOffer(<<"1", "2", "0">>, "USD",
                <<Itinerary(Chars45M, <<Segment(<<10, 420>>, <<10, 465>>, "BA", "12")>>)>>,
                <<"BA">>)

OfferNoItineraries == FlightOffer(<<"9", "9">>, "USD", <<>>, <<"AF">>)

OfferBadPrice == FlightOffer(<<"a", "b", "c">>, "USD", <<Itinerary(Chars2H, <<>>)>>, <<>>)

FlightAnswers ==
    {NetErr, Answer(500, TRUE, <<>>), Answer(200, FALSE, <<>>), Answer(200, TRUE, <<>>),
     Answer(200, TRUE, <<OfferNoItineraries, OfferBadPrice>>),
     Answer(201, TRUE, <<OfferBadPrice, OfferOneWay, OfferRoundTrip>>)}

\* hotel IDs of a hotel-list answer; ManyIDs is one more than the code forwards
ManyIDs == [i \in 1..(MaxHotelIDs + 1) |-> "H" \o ToString(i)]

HotelListAnswers ==
    {NetErr, Answer(404, TRUE, <<>>), Answer(200, FALSE, <<>>), Answer(200, TRUE, <<>>),
     Answer(200, TRUE, <<"H1">>), Answer(200, TRUE, ManyIDs)}

ItemGood == HotelItem("H1", "Hotel One", "LON", "London", <<"4">>, TRUE,
                      <<HotelRate(<<"1", "5", "0", ".", "0", "0">>, "USD")>>)
ItemNoRating == HotelItem("H2", "Hotel Two", "LON", "", <<>>, TRUE,
                          <<HotelRate(<<"8", "0">>, "USD"), HotelRate(<<"6", "0">>, "USD")>>)
ItemUnavailable == HotelItem("H3", "Hotel Three", "LON", "London", <<"9">>, FALSE,
                             <<HotelRate(<<"7", "0">>, "USD")>>)
ItemNoOffers == HotelItem("H4", "Hotel Four", "LON", "London", <<"3">>, TRUE, <<>>)

HotelOffersAnswers ==
    {NetErr, Answer(429, TRUE, <<>>), Answer(200, FALSE, <<>>), Answer(200, TRUE, <<>>),
     Answer(200, TRUE, <<ItemUnavailable, ItemNoOffers>>),
     Answer(200, TRUE, <<ItemUnavailable, ItemNoRating, ItemGood>>)}

\* hfResponse (part_003:57): a list of generated texts
AIAnswers ==
    {NetErr, Answer(503, TRUE, <<>>), Answer(500, TRUE, <<>>), Answer(200, FALSE, <<>>),
     Answer(200, TRUE, <<>>), Answer(200, TRUE, <<"">>),
     Answer(200, TRUE, <<"Flight: take the first. Hotel: take the second.">>)}


(***************************************************************************)
(* Credential session (amadeus.go:93-151).                                 *)
(***************************************************************************)
\* amadeus.go:53  the zero time.Time of a fresh AmadeusClient: before every clock value
ZeroTime == -1000000

\* amadeus.go:109-126  the exchange succeeded: no transport error, status 200,
\* a body that decodes
ExchangeOK(ans) == ~ans.neterr /\ ans.status = 200 /\ ans.valid

\* amadeus.go:130  time.Now().Add(time.Duration(result.ExpiresIn-30) * time.Second)
NewExpiry(t, expiresIn) == t + (expiresIn - TokenMargin)

\* amadeus.go:138  time.Now().After(c.tokenExpiry)
TokenExpired(t, expiry) == t > expiry

\* amadeus.go:142  expired || token == ""
NeedsRefresh(expired, token) == expired \/ token = ""

\* refreshToken with a plausible fault: a failed exchange clears the cache
refreshTokenClearsCache(ans, d) ==
    /\ now' = now + d
    /\ IF ExchangeOK(ans)
       THEN /\ accessToken' = ans.data.AccessToken
            /\ tokenExpiry' = NewExpiry(now + d, ans.data.ExpiresIn)
            /\ providerExpiry' = now + ans.data.ExpiresIn
       ELSE /\ accessToken' = ""
            /\ tokenExpiry' = ZeroTime
            /\ providerExpiry' = ZeroTime

\* amadeus.go:95  refreshToken, the caller alone: the request leaves at `now`, the
\* provider issues the token then, and the answer is handled d seconds later
refreshToken(ans, d) ==
    /\ now' = now + d
    /\ IF ExchangeOK(ans)
       THEN /\ accessToken' = ans.data.AccessToken
            /\ tokenExpiry' = NewExpiry(now + d, ans.data.ExpiresIn)
            /\ providerExpiry' = now + ans.data.ExpiresIn
       ELSE UNCHANGED <<accessToken, tokenExpiry, providerExpiry>>

(***************************************************************************)
(* Start of the process (part_001:23-30).                                  *)
(***************************************************************************)
NoCall == [called |-> FALSE, err |-> "", list |-> <<>>]
\* the answer field of a getToken that exchanged nothing
NoAnswer == [neterr |-> FALSE, status |-> 0, valid |-> FALSE, data |-> <<>>]
NoToken == [called |-> FALSE, err |-> "", token |-> "", exchanged |-> FALSE,
            answer |-> NoAnswer, at |-> ""]
NoText == [text |-> ""]
NoAICall == [called |-> FALSE, err |-> "", summary |-> NoText, answer |-> NoAnswer]
NoRequest == [Origin |-> "", Destination |-> "", DepartureDate |-> 0, ReturnDate |-> 0,
              Budget |-> 0, Passengers |-> 0]
NoResponse == [status |-> 0]
NoResult == [AccessToken |-> "", ExpiresIn |-> 0, id |-> 0, issued |-> 0]
NotSeen == [token |-> 0, expiry |-> 0]

Callers == {"c1", "c2"}
NoFnCall == [fn |-> ""]
NotSaving == [pc |-> "idle"]
NotGenerating == [pc |-> "idle"]

Init ==
    /\ amadeusClient = "nil"
    /\ clientID = ""
    /\ clientSecret = ""
    /\ accessToken = ""
    /\ tokenExpiry = ZeroTime
    /\ mu = "free"
    /\ apiKey = ""
    /\ now = 0
    /\ providerExpiry = ZeroTime
    /\ pc = "boot"
    /\ req = NoRequest
    /\ flights = <<>>
    /\ hotels = <<>>
    /\ isFallback = FALSE
    /\ source = "live"
    /\ flightsCall = NoCall
    /\ hotelsCall = NoCall
    /\ hotelIDs = <<>>
    /\ listedIDs = <<>>
    /\ tok = NoToken
    /\ aiCall = NoAICall
    /\ aiSummary = NoText
    /\ response = NoResponse
    /\ reqLog = <<>>
    /\ served = 0
    /\ cpc = [p \in Callers |-> "idle"]
    /\ cExpired = [p \in Callers |-> FALSE]
    /\ cToken = [p \in Callers |-> ""]
    /\ cResult = [p \in Callers |-> NoResult]
    /\ cSeen = [p \in Callers |-> NotSeen]
    /\ exchanges = 0
    /\ tokenWriter = 0
    /\ expiryWriter = 0
    /\ fnCall = NoFnCall
    /\ fnResult = <<>>
    /\ dbSearches = {}
    /\ dbItineraries = {}
    /\ saving = NotSaving
    /\ generating = NotGenerating
    /\ genResponse = NoResponse

\* amadeus.go:60  InitAmadeus, with the environment's identifier and secret
InitAmadeus(id, secret) ==
    /\ pc = "boot"
    /\ amadeusClient' = "set"
    /\ clientID' = id
    /\ clientSecret' = secret
    /\ IF id = "" \/ secret = ""
       THEN UNCHANGED <<accessToken, tokenExpiry, now, providerExpiry>>
       ELSE \E ans \in TokenAnswers, d \in 0..MaxDelay :
                /\ now + d <= MaxTime
                /\ refreshToken(ans, d)
    /\ pc' = "initAI"
    /\ UNCHANGED <<mu, apiKey, req, flights, hotels, isFallback, source, flightsCall,
                   hotelsCall, hotelIDs, listedIDs, tok, aiCall, aiSummary, response, reqLog, served>>
    /\ UNCHANGED <<callerVars, fnVars, dbVars>>

\* part_003:21  InitAI, with the environment's API key
InitAI(key) ==
    /\ pc = "initAI"
    /\ apiKey' = key
    /\ pc' = "idle"
    /\ UNCHANGED <<amadeusClient, clientID, clientSecret, accessToken, tokenExpiry, mu>>
    /\ UNCHANGED worldVars
    /\ UNCHANGED <<req, flights, hotels, isFallback, source, flightsCall, hotelsCall,
                   hotelIDs, listedIDs, tok, aiCall, aiSummary, response, reqLog, served>>
    /\ UNCHANGED <<callerVars, fnVars, dbVars>>

\* the clock.  Only refreshToken and getToken read it, so it is advanced where
\* one of them is about to run.
Tick ==
    /\ pc \in {"boot", "fl_token", "hl_token", "ho_token"}
    /\ now < MaxTime
    /\ now' = now + 1
    /\ UNCHANGED <<clientVars, providerExpiry, handlerVars, callerVars, fnVars, dbVars>>


(***************************************************************************)
(* SearchHandler (part_004:33-187), one request at a time, in the steps    *)
(* its outbound calls cut it into.                                         *)
(***************************************************************************)
sessionFixed == UNCHANGED <<amadeusClient, clientID, clientSecret, mu, apiKey>>
cacheFixed == UNCHANGED <<accessToken, tokenExpiry, now, providerExpiry>>

\* one outbound HTTP request, as reqLog keeps it
Sent(to, bearer, city, ids) == [to |-> to, bearer |-> bearer, city |-> city, ids |-> ids]

\* part_004:71  numNights
numNights(r) == r.ReturnDate - r.DepartureDate

\* part_004:33-79  a validated request arrives; the locals are declared
StartSearch(r) ==
    /\ pc \in {"idle", "done"}
    /\ served < MaxSearches
    /\ served' = served + 1
    /\ req' = r
    /\ flights' = <<>>
    /\ hotels' = <<>>
    /\ isFallback' = FALSE
    /\ source' = "live"
    /\ flightsCall' = NoCall
    /\ hotelsCall' = NoCall
    /\ hotelIDs' = <<>>
    /\ listedIDs' = <<>>
    /\ tok' = NoToken
    /\ aiCall' = NoAICall
    /\ aiSummary' = NoText
    /\ response' = NoResponse
    /\ reqLog' = <<>>
    /\ pc' = "flights"
    /\ sessionFixed /\ cacheFixed
    /\ UNCHANGED <<callerVars, fnVars, dbVars>>

\* the handler stays inside SearchFlights or SearchHotels
StayInCall(nextPc) ==
    /\ pc' = nextPc
    /\ UNCHANGED <<flights, hotels, isFallback, source, flightsCall, hotelsCall>>

\* AfterSearchFlights with a plausible fault: the empty-list branch is missing
AfterSearchFlightsNoEmptyCheck(list, err) ==
    /\ flightsCall' = [called |-> TRUE, err |-> err, list |-> list]
    /\ IF err # ""
       THEN /\ flights' = GenerateFlightsFallback(req.Origin, req.Destination,
                                                  req.DepartureDate, req.ReturnDate)
            /\ isFallback' = TRUE
       ELSE /\ flights' = list
            /\ isFallback' = isFallback
    /\ pc' = "hotels"
    /\ UNCHANGED <<hotels, source, hotelsCall>>

\* part_004:88-99  SearchFlights returned (list, err)
AfterSearchFlights(list, err) ==
    /\ flightsCall' = [called |-> TRUE, err |-> err, list |-> list]
    /\ IF err # ""
       THEN /\ flights' = GenerateFlightsFallback(req.Origin, req.Destination,
                                                  req.DepartureDate, req.ReturnDate)
            /\ isFallback' = TRUE
       ELSE IF Len(list) = 0
       THEN /\ flights' = GenerateFlightsFallback(req.Origin, req.Destination,
                                                  req.DepartureDate, req.ReturnDate)
            /\ isFallback' = TRUE
       ELSE /\ flights' = list
            /\ isFallback' = isFallback
    /\ pc' = "hotels"
    /\ UNCHANGED <<hotels, source, hotelsCall>>

\* AfterSearchHotels with a plausible fault: the empty-list branch forgets
\* isFallback = true
AfterSearchHotelsEmptyUnmarked(list, err) ==
    /\ hotelsCall' = [called |-> TRUE, err |-> err, list |-> list]
    /\ IF err # ""
       THEN /\ hotels' = GenerateHotelsFallback(req.Destination)
            /\ isFallback' = TRUE
       ELSE IF Len(list) = 0
       THEN /\ hotels' = GenerateHotelsFallback(req.Destination)
            /\ isFallback' = isFallback
       ELSE /\ hotels' = list
            /\ isFallback' = isFallback
    /\ source' = IF isFallback' THEN "estimated" ELSE source
    /\ pc' = "recommend"
    /\ UNCHANGED <<flights, flightsCall>>

\* part_004:113-134  SearchHotels returned (list, err); then source is settled
AfterSearchHotels(list, err) ==
    /\ hotelsCall' = [called |-> TRUE, err |-> err, list |-> list]
    /\ IF err # ""
       THEN /\ hotels' = GenerateHotelsFallback(req.Destination)
            /\ isFallback' = TRUE
       ELSE IF Len(list) = 0
       THEN /\ hotels' = GenerateHotelsFallback(req.Destination)
            /\ isFallback' = TRUE
       ELSE /\ hotels' = list
            /\ isFallback' = isFallback
    /\ source' = IF isFallback' THEN "estimated" ELSE source
    /\ pc' = "recommend"
    /\ UNCHANGED <<flights, flightsCall>>

\* an error inside SearchFlights or SearchHotels travels up to the handler
CallFailed(err) ==
    IF pc \in {"fl_token", "fl_send"}
    THEN AfterSearchFlights(<<>>, err)
    ELSE AfterSearchHotels(<<>>, err)

\* part_004:81-103 with amadeus.go:188-191  the flights leg begins
BeginFlights ==
    /\ pc = "flights"
    /\ IF amadeusClient = "nil"
       THEN /\ flights' = GenerateFlightsFallback(req.Origin, req.Destination,
                                                  req.DepartureDate, req.ReturnDate)
            /\ isFallback' = TRUE
            /\ pc' = "hotels"
            /\ UNCHANGED <<hotels, source, flightsCall, hotelsCall>>
       ELSE IF clientID = ""
       THEN AfterSearchFlights(<<>>, "amadeus not configured")
       ELSE StayInCall("fl_token")
    /\ sessionFixed /\ cacheFixed
    /\ UNCHANGED <<req, hotelIDs, listedIDs, tok, aiCall, aiSummary, response, reqLog, served>>
    /\ UNCHANGED <<callerVars, fnVars, dbVars>>

\* amadeus.go:153-157  where doRequest goes once it has the token
SendPc(at) ==
    CASE at = "fl_token" -> "fl_send"
      [] at = "hl_token" -> "hl_send"
      [] at = "ho_token" -> "ho_send"

\* amadeus.go:136  getToken, called by doRequest (154-157)
GetToken ==
    /\ pc \in {"fl_token", "hl_token", "ho_token"}
    /\ LET expired == TokenExpired(now, tokenExpiry)
           token == accessToken
       IN  IF NeedsRefresh(expired, token)
           THEN \E ans \in TokenAnswers, d \in 0..MaxDelay :
                    /\ now + d <= MaxTime
                    /\ refreshToken(ans, d)
                    /\ reqLog' = Append(reqLog, Sent("token", "", "", <<>>))
                    /\ IF ExchangeOK(ans)
                       THEN /\ tok' = [called |-> TRUE, err |-> "", token |-> accessToken',
                                       exchanged |-> TRUE, answer |-> ans, at |-> pc]
                            /\ StayInCall(SendPc(pc))
                       ELSE /\ tok' = [called |-> TRUE, err |-> "token request failed",
                                       token |-> "", exchanged |-> TRUE, answer |-> ans,
                                       at |-> pc]
                            /\ CallFailed("auth failed")
           ELSE /\ tok' = [called |-> TRUE, err |-> "", token |-> token, exchanged |-> FALSE,
                           answer |-> NoAnswer, at |-> pc]
                /\ cacheFixed
                /\ UNCHANGED reqLog
                /\ StayInCall(SendPc(pc))
    /\ sessionFixed
    /\ UNCHANGED <<req, hotelIDs, listedIDs, aiCall, aiSummary, response, served>>
    /\ UNCHANGED <<callerVars, fnVars, dbVars>>

\* FlightOffers with a plausible fault: a failed request is tried again
FlightOffersRetried ==
    /\ pc = "fl_send"
    /\ \E ans \in FlightAnswers :
          /\ reqLog' = Append(reqLog, Sent("flight-offers", tok.token, "", <<>>))
          /\ LET r == doRequestResult(ans)
                 parsed == parseFlightOffers(ans)
             IN  IF r.err # "" THEN StayInCall("fl_token")
                 ELSE AfterSearchFlights(parsed.list, parsed.err)
    /\ sessionFixed /\ cacheFixed
    /\ UNCHANGED <<req, hotelIDs, listedIDs, tok, aiCall, aiSummary, response, served>>
    /\ UNCHANGED <<callerVars, fnVars, dbVars>>

\* amadeus.go:159-182, 203-208  the flight-offers request and its parsing
FlightOffers ==
    /\ pc = "fl_send"
    /\ \E ans \in FlightAnswers :
          /\ reqLog' = Append(reqLog, Sent("flight-offers", tok.token, "", <<>>))
          /\ LET r == doRequestResult(ans)
                 parsed == parseFlightOffers(ans)
             IN  IF r.err # "" THEN AfterSearchFlights(<<>>, "flight search failed")
                 ELSE AfterSearchFlights(parsed.list, parsed.err)
    /\ sessionFixed /\ cacheFixed
    /\ UNCHANGED <<req, hotelIDs, listedIDs, tok, aiCall, aiSummary, response, served>>
    /\ UNCHANGED <<callerVars, fnVars, dbVars>>

\* BeginHotels with a plausible fault: the condition lacks `&& !isFallback`
BeginHotelsIgnoringFallback ==
    /\ pc = "hotels"
    /\ IF amadeusClient # "nil"
       THEN IF clientID = ""
            THEN AfterSearchHotels(<<>>, "amadeus not configured")
            ELSE StayInCall("hl_token")
       ELSE /\ hotels' = IF hotels = <<>> THEN GenerateHotelsFallback(req.Destination)
                         ELSE hotels
            /\ isFallback' = TRUE
            /\ source' = "estimated"
            /\ pc' = "recommend"
            /\ UNCHANGED <<flights, flightsCall, hotelsCall>>
    /\ sessionFixed /\ cacheFixed
    /\ UNCHANGED <<req, hotelIDs, listedIDs, tok, aiCall, aiSummary, response, reqLog, served>>
    /\ UNCHANGED <<callerVars, fnVars, dbVars>>

\* part_004:105-130 with amadeus.go:318-321  the hotels leg begins, or is skipped
BeginHotels ==
    /\ pc = "hotels"
    /\ IF amadeusClient # "nil" /\ ~isFallback
       THEN IF clientID = ""
            THEN AfterSearchHotels(<<>>, "amadeus not configured")
            ELSE StayInCall("hl_token")
       ELSE /\ hotels' = IF hotels = <<>> THEN GenerateHotelsFallback(req.Destination)
                         ELSE hotels
            /\ isFallback' = TRUE
            /\ source' = "estimated"
            /\ pc' = "recommend"
            /\ UNCHANGED <<flights, flightsCall, hotelsCall>>
    /\ sessionFixed /\ cacheFixed
    /\ UNCHANGED <<req, hotelIDs, listedIDs, tok, aiCall, aiSummary, response, reqLog, served>>
    /\ UNCHANGED <<callerVars, fnVars, dbVars>>

\* amadeus.go:357-380, 324-336  the hotel-list request, then SearchHotels' checks
HotelList ==
    /\ pc = "hl_send"
    /\ \E ans \in HotelListAnswers :
          /\ reqLog' = Append(reqLog, Sent("hotel-list", tok.token,
                                           airportToCity(req.Destination), <<>>))
          /\ LET r == doRequestResult(ans)
                 parsed == parseHotelList(ans)
             IN  IF r.err # "" \/ parsed.err # ""
                 THEN AfterSearchHotels(<<>>, "hotel list failed") /\ UNCHANGED <<hotelIDs, listedIDs>>
                 ELSE IF Len(parsed.list) = 0
                 THEN AfterSearchHotels(<<>>, "no hotels found for city") /\ UNCHANGED <<hotelIDs, listedIDs>>
                 ELSE hotelIDs' = LimitIDs(parsed.list) /\ listedIDs' = parsed.list
                          /\ StayInCall("ho_token")
    /\ sessionFixed /\ cacheFixed
    /\ UNCHANGED <<req, tok, aiCall, aiSummary, response, served>>
    /\ UNCHANGED <<callerVars, fnVars, dbVars>>

\* amadeus.go:405-451  the hotel-offers request and its parsing
HotelOffers ==
    /\ pc = "ho_send"
    /\ \E ans \in HotelOffersAnswers :
          /\ reqLog' = Append(reqLog, Sent("hotel-offers", tok.token, "", hotelIDs))
          /\ LET r == doRequestResult(ans)
                 parsed == parseHotelOffers(ans)
             IN  IF r.err # "" THEN AfterSearchHotels(<<>>, "hotel offers failed")
                 ELSE AfterSearchHotels(parsed.list, parsed.err)
    /\ sessionFixed /\ cacheFixed
    /\ UNCHANGED <<req, hotelIDs, listedIDs, tok, aiCall, aiSummary, response, served>>
    /\ UNCHANGED <<callerVars, fnVars, dbVars>>

\* GetRecommendationsResult with a plausible fault: an empty generated text is
\* not looked for
GetRecommendationsResultEmptyText(ans) ==
    IF ans.neterr THEN [err |-> "transport", text |-> ""]
    ELSE IF ans.status = 503 THEN [err |-> "AI model is loading", text |-> ""]
    ELSE IF ans.status # 200 THEN [err |-> "HuggingFace API error", text |-> ""]
    ELSE IF ~ans.valid THEN [err |-> "failed to parse AI response", text |-> ""]
    ELSE IF Len(ans.data) = 0
    THEN [err |-> "empty response from AI", text |-> ""]
    ELSE [err |-> "", text |-> ans.data[1]]

\* part_003:98-123  GetRecommendations once the request was sent: (text, err)
GetRecommendationsResult(ans) ==
    IF ans.neterr THEN [err |-> "transport", text |-> ""]
    ELSE IF ans.status = 503 THEN [err |-> "AI model is loading", text |-> ""]
    ELSE IF ans.status # 200 THEN [err |-> "HuggingFace API error", text |-> ""]
    ELSE IF ~ans.valid THEN [err |-> "failed to parse AI response", text |-> ""]
    ELSE IF Len(ans.data) = 0 \/ ans.data[1] = ""
    THEN [err |-> "empty response from AI", text |-> ""]
    ELSE [err |-> "", text |-> ans.data[1]]

\* SummaryOf with a plausible fault: the error of GetRecommendations is ignored
SummaryOfIgnoringError(result) == [text |-> result.text]

\* part_004:143-146  the summary the handler keeps
SummaryOf(result) ==
    IF result.err # ""
    THEN FallbackRecommendation(req.Budget, flights, hotels, numNights(req))
    ELSE [text |-> result.text]

\* part_004:136-146 with part_003:61-124  the recommendation
Recommend ==
    /\ pc = "recommend"
    /\ IF apiKey = ""
       THEN LET result == [err |-> "huggingface API key not configured", text |-> ""]
            IN  /\ aiCall' = [called |-> TRUE, err |-> result.err, summary |-> NoText,
                                  answer |-> NoAnswer]
                /\ aiSummary' = SummaryOf(result)
                /\ UNCHANGED reqLog
       ELSE \E ans \in AIAnswers :
                LET result == GetRecommendationsResult(ans)
                IN  /\ aiCall' = [called |-> TRUE, err |-> result.err,
                                  summary |-> [text |-> result.text], answer |-> ans]
                    /\ aiSummary' = SummaryOf(result)
                    /\ reqLog' = Append(reqLog, Sent("ai", apiKey, "", <<>>))
    /\ pc' = "persist"
    /\ sessionFixed /\ cacheFixed
    /\ UNCHANGED <<req, flights, hotels, isFallback, source, flightsCall, hotelsCall,
                   hotelIDs, listedIDs, tok, response, served>>
    /\ UNCHANGED <<callerVars, fnVars, dbVars>>

\* part_004:148-186  the two saves, then the response
Persist ==
    /\ pc = "persist"
    /\ \E saveSearchOK \in BOOLEAN, saveItineraryOK \in BOOLEAN :
          response' =
              IF ~saveSearchOK THEN [status |-> 500, error |-> "Failed to save search"]
              ELSE IF ~saveItineraryOK
              THEN [status |-> 500, error |-> "Failed to save itinerary"]
              ELSE [status |-> 200, Flights |-> flights, Hotels |-> hotels,
                    AISummary |-> aiSummary, Source |-> source]
    /\ pc' = "done"
    /\ sessionFixed /\ cacheFixed
    /\ UNCHANGED <<req, flights, hotels, isFallback, source, flightsCall, hotelsCall,
                   hotelIDs, listedIDs, tok, aiCall, aiSummary, reqLog, served>>
    /\ UNCHANGED <<callerVars, fnVars, dbVars>>

Next ==
    \/ \E id \in ClientIDs, secret \in ClientSecrets : InitAmadeus(id, secret)
    \/ \E key \in ApiKeys : InitAI(key)
    \/ \E r \in Requests : StartSearch(r)
    \/ BeginFlights
    \/ GetToken
    \/ FlightOffers
    \/ BeginHotels
    \/ HotelList
    \/ HotelOffers
    \/ Recommend
    \/ Persist
    \/ Tick

Spec == Init /\ [][Next]_vars


(***************************************************************************)
(* getToken and refreshToken under concurrent callers (amadeus.go:95-151), *)
(* one step per mutex operation, field access and HTTP exchange.  The      *)
(* client is configured and its cache is empty, as after a failed pre-warm.*)
(***************************************************************************)
InitCallers ==
    /\ amadeusClient = "set"
    /\ clientID = "id"
    /\ clientSecret = "secret"
    /\ accessToken = ""
    /\ tokenExpiry = ZeroTime
    /\ mu = "free"
    /\ apiKey = ""
    /\ now = 0
    /\ providerExpiry = ZeroTime
    /\ pc = "idle"
    /\ req = NoRequest
    /\ flights = <<>>
    /\ hotels = <<>>
    /\ isFallback = FALSE
    /\ source = "live"
    /\ flightsCall = NoCall
    /\ hotelsCall = NoCall
    /\ hotelIDs = <<>>
    /\ listedIDs = <<>>
    /\ tok = NoToken
    /\ aiCall = NoAICall
    /\ aiSummary = NoText
    /\ response = NoResponse
    /\ reqLog = <<>>
    /\ served = 0
    /\ cpc = [p \in Callers |-> "idle"]
    /\ cExpired = [p \in Callers |-> FALSE]
    /\ cToken = [p \in Callers |-> ""]
    /\ cResult = [p \in Callers |-> NoResult]
    /\ cSeen = [p \in Callers |-> NotSeen]
    /\ exchanges = 0
    /\ tokenWriter = 0
    /\ expiryWriter = 0
    /\ fnCall = NoFnCall
    /\ fnResult = <<>>
    /\ dbSearches = {}
    /\ dbItineraries = {}
    /\ saving = NotSaving
    /\ generating = NotGenerating
    /\ genResponse = NoResponse

othersFixed ==
    /\ UNCHANGED <<amadeusClient, clientID, clientSecret, apiKey>>
    /\ UNCHANGED handlerVars
    /\ UNCHANGED <<fnVars, dbVars>>

\* amadeus.go:136  a caller enters getToken
Call(p) ==
    /\ cpc[p] = "idle"
    /\ cpc' = [cpc EXCEPT ![p] = "lock1"]
    /\ UNCHANGED <<accessToken, tokenExpiry, mu, now, providerExpiry, cExpired, cToken,
                   cResult, cSeen, exchanges, tokenWriter, expiryWriter>>
    /\ othersFixed

\* Lock with a plausible fault: the c.mu.Lock() call is missing
LockMissing(p, at, next) ==
    /\ cpc[p] = at
    /\ cpc' = [cpc EXCEPT ![p] = next]
    /\ UNCHANGED <<accessToken, tokenExpiry, mu, now, providerExpiry, cExpired, cToken,
                   cResult, cSeen, exchanges, tokenWriter, expiryWriter>>
    /\ othersFixed

\* amadeus.go:137, 128, 146  c.mu.Lock() at position `at`, going on to `next`
Lock(p, at, next) ==
    /\ cpc[p] = at
    /\ mu = "free"
    /\ mu' = p
    /\ cpc' = [cpc EXCEPT ![p] = next]
    /\ UNCHANGED <<accessToken, tokenExpiry, now, providerExpiry, cExpired, cToken,
                   cResult, cSeen, exchanges, tokenWriter, expiryWriter>>
    /\ othersFixed

\* amadeus.go:138  expired := time.Now().After(c.tokenExpiry)
ReadExpiry(p) ==
    /\ cpc[p] = "readExpiry"
    /\ cExpired' = [cExpired EXCEPT ![p] = TokenExpired(now, tokenExpiry)]
    /\ cSeen' = [cSeen EXCEPT ![p].expiry = expiryWriter]
    /\ cpc' = [cpc EXCEPT ![p] = "readToken"]
    /\ UNCHANGED <<accessToken, tokenExpiry, mu, now, providerExpiry, cToken,
                   cResult, exchanges, tokenWriter, expiryWriter>>
    /\ othersFixed

\* amadeus.go:139  token := c.accessToken
ReadToken(p) ==
    /\ cpc[p] = "readToken"
    /\ cToken' = [cToken EXCEPT ![p] = accessToken]
    /\ cSeen' = [cSeen EXCEPT ![p].token = tokenWriter]
    /\ cpc' = [cpc EXCEPT ![p] = "unlock1"]
    /\ UNCHANGED <<accessToken, tokenExpiry, mu, now, providerExpiry, cExpired,
                   cResult, exchanges, tokenWriter, expiryWriter>>
    /\ othersFixed

\* UnlockAndDecide with a plausible fault: the mutex is kept across the refresh
UnlockAndDecideHolding(p) ==
    /\ cpc[p] = "unlock1"
    /\ IF NeedsRefresh(cExpired[p], cToken[p])
       THEN cpc' = [cpc EXCEPT ![p] = "exchange"] /\ UNCHANGED mu
       ELSE cpc' = [cpc EXCEPT ![p] = "return"] /\ mu' = IF mu = p THEN "free" ELSE mu
    /\ UNCHANGED <<accessToken, tokenExpiry, now, providerExpiry, cExpired, cToken,
                   cResult, cSeen, exchanges, tokenWriter, expiryWriter>>
    /\ othersFixed

\* amadeus.go:140-142  c.mu.Unlock(), then the decision: refresh, or return the
\* token that was read
UnlockAndDecide(p) ==
    /\ cpc[p] = "unlock1"
    /\ mu' = IF mu = p THEN "free" ELSE mu
    /\ IF NeedsRefresh(cExpired[p], cToken[p])
       THEN cpc' = [cpc EXCEPT ![p] = "exchange"]
       ELSE cpc' = [cpc EXCEPT ![p] = "return"]
    /\ UNCHANGED <<accessToken, tokenExpiry, now, providerExpiry, cExpired, cToken,
                   cResult, cSeen, exchanges, tokenWriter, expiryWriter>>
    /\ othersFixed

\* amadeus.go:96-126, 143-145  the exchange; on failure getToken returns the error
Exchange(p, ans) ==
    /\ cpc[p] = "exchange"
    /\ exchanges < MaxExchanges
    /\ exchanges' = exchanges + 1
    /\ IF ExchangeOK(ans)
       THEN /\ cResult' = [cResult EXCEPT ![p] =
                              [AccessToken |-> ans.data.AccessToken,
                               ExpiresIn |-> ans.data.ExpiresIn,
                               id |-> exchanges + 1, issued |-> now]]
            /\ cpc' = [cpc EXCEPT ![p] = "lock2"]
       ELSE /\ cpc' = [cpc EXCEPT ![p] = "returnErr"]
            /\ UNCHANGED cResult
    /\ UNCHANGED <<accessToken, tokenExpiry, mu, now, providerExpiry, cExpired, cToken,
                   cSeen, tokenWriter, expiryWriter>>
    /\ othersFixed

\* amadeus.go:129  c.accessToken = result.AccessToken
WriteToken(p) ==
    /\ cpc[p] = "writeToken"
    /\ accessToken' = cResult[p].AccessToken
    /\ tokenWriter' = cResult[p].id
    /\ cpc' = [cpc EXCEPT ![p] = "writeExpiry"]
    /\ UNCHANGED <<tokenExpiry, mu, now, providerExpiry, cExpired, cToken,
                   cResult, cSeen, exchanges, expiryWriter>>
    /\ othersFixed

\* amadeus.go:130  c.tokenExpiry = time.Now().Add(...)
WriteExpiry(p) ==
    /\ cpc[p] = "writeExpiry"
    /\ tokenExpiry' = NewExpiry(now, cResult[p].ExpiresIn)
    /\ expiryWriter' = cResult[p].id
    /\ providerExpiry' = cResult[p].issued + cResult[p].ExpiresIn
    /\ cpc' = [cpc EXCEPT ![p] = "unlock2"]
    /\ UNCHANGED <<accessToken, mu, now, cExpired, cToken,
                   cResult, cSeen, exchanges, tokenWriter>>
    /\ othersFixed

\* amadeus.go:131  c.mu.Unlock() at the end of refreshToken
UnlockAfterWrite(p) ==
    /\ cpc[p] = "unlock2"
    /\ mu' = IF mu = p THEN "free" ELSE mu
    /\ cpc' = [cpc EXCEPT ![p] = "lock3"]
    /\ UNCHANGED <<accessToken, tokenExpiry, now, providerExpiry, cExpired, cToken,
                   cResult, cSeen, exchanges, tokenWriter, expiryWriter>>
    /\ othersFixed

\* amadeus.go:147  token = c.accessToken, after the refresh
ReadTokenAgain(p) ==
    /\ cpc[p] = "readToken2"
    /\ cToken' = [cToken EXCEPT ![p] = accessToken]
    /\ cSeen' = [cSeen EXCEPT ![p].token = tokenWriter]
    /\ cpc' = [cpc EXCEPT ![p] = "unlock3"]
    /\ UNCHANGED <<accessToken, tokenExpiry, mu, now, providerExpiry, cExpired,
                   cResult, exchanges, tokenWriter, expiryWriter>>
    /\ othersFixed

\* amadeus.go:148  c.mu.Unlock() after the second read
UnlockAfterRead(p) ==
    /\ cpc[p] = "unlock3"
    /\ mu' = IF mu = p THEN "free" ELSE mu
    /\ cpc' = [cpc EXCEPT ![p] = "return"]
    /\ UNCHANGED <<accessToken, tokenExpiry, now, providerExpiry, cExpired, cToken,
                   cResult, cSeen, exchanges, tokenWriter, expiryWriter>>
    /\ othersFixed

\* amadeus.go:144, 150  getToken returns: cToken and nil at "return", an error at
\* "returnErr"; the caller's locals are gone
Return(p) ==
    /\ cpc[p] \in {"return", "returnErr"}
    /\ cpc' = [cpc EXCEPT ![p] = "idle"]
    /\ cExpired' = [cExpired EXCEPT ![p] = FALSE]
    /\ cToken' = [cToken EXCEPT ![p] = ""]
    /\ cResult' = [cResult EXCEPT ![p] = NoResult]
    /\ cSeen' = [cSeen EXCEPT ![p] = NotSeen]
    /\ UNCHANGED <<accessToken, tokenExpiry, mu, now, providerExpiry,
                   exchanges, tokenWriter, expiryWriter>>
    /\ othersFixed

\* time passes while the callers run
Elapse ==
    /\ now < MaxTime
    /\ now' = now + 1
    /\ UNCHANGED <<clientVars, providerExpiry, handlerVars, callerVars, fnVars, dbVars>>

NextCallers ==
    \/ \E p \in Callers : Call(p)
    \/ \E p \in Callers : Lock(p, "lock1", "readExpiry")
    \/ \E p \in Callers : ReadExpiry(p)
    \/ \E p \in Callers : ReadToken(p)
    \/ \E p \in Callers : UnlockAndDecide(p)
    \/ \E p \in Callers, ans \in TokenAnswers : Exchange(p, ans)
    \/ \E p \in Callers : Lock(p, "lock2", "writeToken")
    \/ \E p \in Callers : WriteToken(p)
    \/ \E p \in Callers : WriteExpiry(p)
    \/ \E p \in Callers : UnlockAfterWrite(p)
    \/ \E p \in Callers : Lock(p, "lock3", "readToken2")
    \/ \E p \in Callers : ReadTokenAgain(p)
    \/ \E p \in Callers : UnlockAfterRead(p)
    \/ \E p \in Callers : Return(p)
    \/ Elapse

SpecCallers == InitCallers /\ [][NextCallers]_vars

\* The same callers over a short stretch of the clock, long enough for a
\* cached token to be usable at first and expired later.
MaxContention == 1

\* amadeus.go:95-151  the steps of caller p
CallerStep(p) ==
    \/ Call(p) \/ Lock(p, "lock1", "readExpiry") \/ ReadExpiry(p) \/ ReadToken(p)
    \/ UnlockAndDecide(p) \/ (\E ans \in TokenAnswers : Exchange(p, ans))
    \/ Lock(p, "lock2", "writeToken") \/ WriteToken(p) \/ WriteExpiry(p)
    \/ UnlockAfterWrite(p) \/ Lock(p, "lock3", "readToken2") \/ ReadTokenAgain(p)
    \/ UnlockAfterRead(p) \/ Return(p)

\* time passes while the callers contend
ElapseContending ==
    /\ now < MaxContention
    /\ now' = now + 1
    /\ UNCHANGED <<clientVars, providerExpiry, handlerVars, callerVars, fnVars, dbVars>>

NextContention ==
    \/ \E p \in Callers : CallerStep(p)
    \/ ElapseContending

SpecContention == InitCallers /\ [][NextContention]_vars

(***************************************************************************)
(* The functions of the services package called on their own, each with    *)
(* arguments drawn from the sets below.                                    *)
(***************************************************************************)
\* the lists of at most n elements of S
ListsOf(S, n) == UNION {[1..k -> S] : k \in 0..n}

\* airport and city codes: with and without a route, with and without a catalog
Codes == {"TAS", "IST", "CDG", "PAR", "LHR", "DXB", "FRA", "BER", "AAA"}

\* valid calendar dates, as day numbers
DepartureDates == {10, 28}
ReturnDates == {11, 29, 31}

\* flights and hotels handed to FallbackRecommendation; B and C, Y and Z tie
FlightA == MkFlight(50000, "A", "", "", <<>>, <<>>, <<>>, 0, <<>>, <<>>, <<>>, 0, "USD")
FlightB == MkFlight(30000, "B", "", "", <<>>, <<>>, <<>>, 1, <<>>, <<>>, <<>>, 1, "USD")
FlightC == MkFlight(30000, "C", "", "", <<>>, <<>>, <<>>, 0, <<>>, <<>>, <<>>, 0, "USD")
FlightD == MkFlight(24550, "D", "", "", <<>>, <<>>, <<>>, 2, <<>>, <<>>, <<>>, 2, "USD")
HotelX == MkHotel("X", 10000, 400, "")
HotelY == MkHotel("Y", 8000, 350, "")
HotelZ == MkHotel("Z", 8000, 475, "")
FlightInputs == {FlightA, FlightB, FlightC, FlightD}
HotelInputs == {HotelX, HotelY, HotelZ}
Budgets == {40000, 70000}
Nights == {1, 3}

\* offers of a flight-offers body, each with a price of its own
OfferNegative ==
    FlightOffer(<<"-", "5">>, "USD",
                <<Itinerary(Chars2H, <<Segment(<<10, 60>>, <<10, 180>>, "AF", "7")>>)>>, <<>>)
OfferZero ==
    FlightOffer(<<"0", ".", "0", "0">>, "USD",
                <<Itinerary(Chars2H, <<Segment(<<10, 60>>, <<10, 180>>, "AF", "8")>>)>>, <<>>)
\* a second itinerary that carries segments and no duration
OfferReturnNoDuration ==
    FlightOffer(<<"3", "1", "0">>, "EUR",
                <<Itinerary(Chars2H, <<Segment(<<10, 60>>, <<10, 180>>, "KL", "1")>>),
                  Itinerary(<<>>, <<Segment(<<13, 60>>, <<13, 180>>, "KL", "2")>>)>>,
                <<"KL">>)
\* a second itinerary that carries a duration and no segments
OfferReturnNoSegments ==
    FlightOffer(<<"4", "1", "0">>, "EUR",
                <<Itinerary(Chars2H, <<Segment(<<10, 60>>, <<10, 180>>, "IB", "1")>>),
                  Itinerary(Chars45M, <<>>)>>,
                <<"IB">>)
OfferInputs == {OfferRoundTrip, OfferOneWay, OfferNoItineraries, OfferBadPrice,
                OfferNegative, OfferZero, OfferReturnNoDuration, OfferReturnNoSegments}
FlightBodies ==
    {Answer(200, FALSE, <<>>)} \cup {Answer(200, TRUE, data) : data \in ListsOf(OfferInputs, MaxList)}

\* the hour and the minute part of a duration text; Absent: the part is missing
Absent == -1
HourParts == {Absent, 0, 1, 2, 5, 12}
MinuteParts == {Absent, 0, 5, 30, 45}

\* the duration text "PT<h>H<m>M" with the parts that are present; with neither
\* part, the empty string
IsoOf(h, m) ==
    IF h = Absent /\ m = Absent THEN <<>>
    ELSE <<"P", "T">> \o (IF h = Absent THEN <<>> ELSE Itoa(h) \o <<"H">>)
                      \o (IF m = Absent THEN <<>> ELSE Itoa(m) \o <<"M">>)

\* items of a hotel-offers body
ItemHighRating == HotelItem("H5", "Hotel Five", "PAR", "Paris", <<"9">>, TRUE,
                            <<HotelRate(<<"7", "0">>, "EUR")>>)
ItemNegativeRating == HotelItem("H6", "Hotel Six", "PAR", "", <<"-", "2">>, TRUE,
                                <<HotelRate(<<"9", "0", ".", "5", "0">>, "EUR")>>)
ItemHalfStar == HotelItem("H7", "Hotel Seven", "ROM", "Rome", <<"4", ".", "5">>, TRUE,
                          <<HotelRate(<<"1", "1", "0">>, "EUR")>>)
ItemZeroPrice == HotelItem("H8", "Hotel Eight", "ROM", "Rome", <<"3">>, TRUE,
                           <<HotelRate(<<"0">>, "EUR")>>)
ItemBadPrice == HotelItem("H9", "Hotel Nine", "ROM", "Rome", <<"3">>, TRUE,
                          <<HotelRate(<<"n", "/", "a">>, "EUR")>>)
ItemInputs == {ItemGood, ItemNoRating, ItemUnavailable, ItemNoOffers, ItemHighRating,
               ItemNegativeRating, ItemHalfStar, ItemZeroPrice, ItemBadPrice}
HotelBodies ==
    {Answer(200, FALSE, <<>>)} \cup {Answer(200, TRUE, data) : data \in ListsOf(ItemInputs, MaxList)}

\* one call in a run: nothing was called yet
Uncalled == fnCall = NoFnCall

\* nothing else moves
othersIdle == UNCHANGED <<clientVars, worldVars, handlerVars, callerVars, dbVars>>

\* amadeus.go:457  a call of GenerateFlightsFallback
CallGenerateFlightsFallback ==
    /\ Uncalled
    /\ \E origin \in Codes, destination \in Codes,
          departureDate \in DepartureDates, returnDate \in ReturnDates :
           /\ returnDate > departureDate
           /\ fnCall' = [fn |-> "GenerateFlightsFallback", origin |-> origin,
                         destination |-> destination, departureDate |-> departureDate,
                         returnDate |-> returnDate]
           /\ fnResult' = GenerateFlightsFallback(origin, destination, departureDate, returnDate)
           /\ othersIdle

\* amadeus.go:535  a call of GenerateHotelsFallback
CallGenerateHotelsFallback ==
    /\ Uncalled
    /\ \E destination \in Codes :
           /\ fnCall' = [fn |-> "GenerateHotelsFallback", destination |-> destination]
           /\ fnResult' = GenerateHotelsFallback(destination)
           /\ othersIdle

\* amadeus.go:735  a call of FallbackRecommendation
CallFallbackRecommendation ==
    /\ Uncalled
    /\ \E budget \in Budgets, fl \in ListsOf(FlightInputs, MaxList),
          ho \in ListsOf(HotelInputs, MaxList), nights \in Nights :
           /\ fnCall' = [fn |-> "FallbackRecommendation", budget |-> budget, flights |-> fl,
                         hotels |-> ho, numNights |-> nights]
           /\ fnResult' = FallbackRecommendation(budget, fl, ho, nights)
           /\ othersIdle

\* amadeus.go:239  a call of parseFlightOffers
CallParseFlightOffers ==
    /\ Uncalled
    /\ \E body \in FlightBodies :
           /\ fnCall' = [fn |-> "parseFlightOffers", data |-> body]
           /\ fnResult' = parseFlightOffers(body)
           /\ othersIdle

\* amadeus.go:418  getHotelOffers on the body doRequest returned
CallParseHotelOffers ==
    /\ Uncalled
    /\ \E body \in HotelBodies :
           /\ fnCall' = [fn |-> "getHotelOffers", data |-> body]
           /\ fnResult' = parseHotelOffers(body)
           /\ othersIdle

\* amadeus.go:604  a call of parseDuration
CallParseDuration ==
    /\ Uncalled
    /\ \E h \in HourParts, m \in MinuteParts :
           /\ fnCall' = [fn |-> "parseDuration", iso |-> IsoOf(h, m), hours |-> h,
                         minutes |-> m]
           /\ fnResult' = parseDuration(IsoOf(h, m))
           /\ othersIdle

NextFunctions ==
    \/ CallGenerateFlightsFallback
    \/ CallGenerateHotelsFallback
    \/ CallFallbackRecommendation
    \/ CallParseFlightOffers
    \/ CallParseHotelOffers
    \/ CallParseDuration

SpecFunctions == Init /\ [][NextFunctions]_vars


(***************************************************************************)
(* The database and GenerateHandler (part_000:129-192, part_004:148-186,   *)
(* itinerary.go:28-124).  One SearchHandler stores what it computed, in    *)
(* two INSERTs, while one GenerateHandler runs, its reads in one step and  *)
(* its INSERT in another.  Row IDs stand for the UUIDs: a fresh ID is the  *)
(* next number.                                                            *)
(***************************************************************************)
MaxRecords == 3
MaxDbTime == 1

\* one field of a struct: its json tag, whether the tag says omitempty, and
\* the zero value of its type
Field(tag, omitempty, zero) == [tag |-> tag, omitempty |-> omitempty, zero |-> zero]

\* amadeus.go:19-34  the json tags of Flight
FlightFields ==
    [Price |-> Field("price", FALSE, 0),
     Airline |-> Field("airline", FALSE, ""),
     AirlineCode |-> Field("airline_code", TRUE, ""),
     FlightNumber |-> Field("flight_number", TRUE, ""),
     DepartureTime |-> Field("departure_time", FALSE, <<>>),
     ArrivalTime |-> Field("arrival_time", FALSE, <<>>),
     Duration |-> Field("duration", FALSE, <<>>),
     Stops |-> Field("stops", FALSE, 0),
     ReturnDepartureTime |-> Field("return_departure_time", TRUE, <<>>),
     ReturnArrivalTime |-> Field("return_arrival_time", TRUE, <<>>),
     ReturnDuration |-> Field("return_duration", TRUE, <<>>),
     ReturnStops |-> Field("return_stops", TRUE, 0),
     BookingLink |-> Field("booking_link", TRUE, ""),
     Currency |-> Field("currency", TRUE, "")]

\* amadeus.go:36-44  the json tags of Hotel
HotelFields ==
    [Name |-> Field("name", FALSE, ""),
     HotelID |-> Field("hotel_id", TRUE, ""),
     Price |-> Field("price", FALSE, 0),
     Rating |-> Field("rating", FALSE, 0),
     Location |-> Field("location", FALSE, ""),
     BookingLink |-> Field("booking_link", TRUE, ""),
     Currency |-> Field("currency", TRUE, "")]

\* json.Marshal of one struct: an object keyed by the tags, without the
\* omitempty fields that hold their zero value
MarshalStruct(v, fields) ==
    LET kept == {name \in DOMAIN fields :
                    ~(fields[name].omitempty /\ v[name] = fields[name].zero)}
    IN  [tag \in {fields[name].tag : name \in kept} |->
            v[CHOOSE name \in kept : fields[name].tag = tag]]

\* json.Unmarshal of one object into a zero struct: a key that is missing
\* leaves the zero value
UnmarshalStruct(obj, fields) ==
    [name \in DOMAIN fields |->
        IF fields[name].tag \in DOMAIN obj THEN obj[fields[name].tag]
        ELSE fields[name].zero]

\* a JSON text: "null" or an array of objects
NullText == [json |-> "null", items |-> <<>>]
ArrayText(items) == [json |-> "array", items |-> items]

\* part_004:164-165  json.Marshal of a slice of structs; the slice that is
\* empty is the nil slice the handler declared (part_004:81, 105), "null"
Marshal(list, fields) ==
    IF list = <<>> THEN NullText
    ELSE ArrayText([i \in DOMAIN list |-> MarshalStruct(list[i], fields)])

\* itinerary.go:54, 58  json.Unmarshal into a nil slice: (list, err)
Unmarshal(text, fields) ==
    IF text.json = "array"
    THEN [err |-> "", list |-> [i \in DOMAIN text.items |->
                                   UnmarshalStruct(text.items[i], fields)]]
    ELSE IF text.json = "null" THEN [err |-> "", list |-> <<>>]
    ELSE [err |-> "unexpected end of JSON input", list |-> <<>>]

\* what a SearchHandler has computed when it reaches its saves: the request
\* and the answers it got (part_004:81-146)
SearchRun(origin, destination, liveFlights, liveHotels, aiText) ==
    LET r == [Origin |-> origin, Destination |-> destination, DepartureDate |-> 10,
              ReturnDate |-> 13, Budget |-> 70000, Passengers |-> 1]
        fl == IF liveFlights # <<>> THEN liveFlights
              ELSE GenerateFlightsFallback(origin, destination, 10, 13)
        ho == IF liveHotels # <<>> THEN liveHotels
              ELSE GenerateHotelsFallback(destination)
    IN  [req |-> r, flights |-> fl, hotels |-> ho,
         aiSummary |-> IF aiText = "" THEN FallbackRecommendation(70000, fl, ho, 3)
                       ELSE [text |-> aiText]]

\* two runs: everything synthesized, five flights and four hotels; everything
\* live, one one-way flight and one hotel
SearchRuns ==
    { SearchRun("BER", "PAR", <<>>, <<>>, ""),
      SearchRun("AAA", "ZZZ",
                parseFlightOffers(Answer(200, TRUE, <<OfferOneWay>>)).list,
                parseHotelOffers(Answer(200, TRUE, <<ItemGood>>)).list,
                "Take the morning flight.") }

\* search IDs: 0 is the empty string, a number above the rows is unknown
NoID == 0

\* itinerary.go:15-20  generate requests; the selected indices as the client
\* sends them, unchecked
GenerateRequests ==
    {[SearchID |-> id, SelectedFlightIndex |-> ix[1], SelectedHotelIndex |-> ix[2],
      TravelerName |-> "Ann"] :
        id \in 0..(MaxSearches + 1), ix \in {<<-1, 4>>, <<0, 0>>, <<4, 3>>, <<5, -1>>}}

\* pdf_data of a row stored without a PDF
NoPDF == [pages |-> 0]

\* part_000:131-137  SaveSearch, the row it inserts
SearchRow(id, r) ==
    [ID |-> id, Origin |-> r.Origin, Destination |-> r.Destination,
     DepartureDate |-> r.DepartureDate, ReturnDate |-> r.ReturnDate,
     Budget |-> r.Budget, Passengers |-> r.Passengers]

\* part_000:152-158  SaveItinerary, the row it inserts; created_at is NOW()
ItineraryRow(i) ==
    [ID |-> i.ID, SearchID |-> i.SearchID, FlightsJSON |-> i.FlightsJSON,
     HotelsJSON |-> i.HotelsJSON, AISummary |-> i.AISummary, PDFData |-> i.PDFData,
     TravelerName |-> i.TravelerName, CreatedAt |-> now]

\* uuid.New(): an ID no row carries
NewSearchID == Cardinality(dbSearches) + 1
NewItineraryID == Cardinality(dbItineraries) + 1

\* part_000:139-150  GetSearch: the rows with the ID, none or one
GetSearch(id) == {s \in dbSearches : s.ID = id}

\* part_000:180-192  GetItineraryBySearchID: ORDER BY created_at DESC LIMIT 1,
\* any of the most recent rows of the search
GetItineraryBySearchID(searchID) ==
    {i \in dbItineraries :
        /\ i.SearchID = searchID
        /\ \A j \in dbItineraries : j.SearchID = searchID => j.CreatedAt <= i.CreatedAt}

\* the handlers fit in the tables
RoomForSearch == Cardinality(dbSearches) < MaxSearches
RoomForItinerary ==
    Cardinality(dbItineraries) + (IF saving.pc = "idle" THEN 0 ELSE 1)
        + (IF generating.pc = "idle" THEN 0 ELSE 1) < MaxRecords

generateFixed == UNCHANGED <<clientVars, worldVars, handlerVars, callerVars, fnVars>>

\* part_004:148-162  SaveSearch of a SearchHandler
SearchSaveSearch ==
    /\ saving.pc = "idle"
    /\ RoomForSearch /\ RoomForItinerary
    /\ \E run \in SearchRuns, saved \in BOOLEAN :
          IF saved
          THEN /\ dbSearches' = dbSearches \cup {SearchRow(NewSearchID, run.req)}
               /\ saving' = [pc |-> "save_itinerary", searchID |-> NewSearchID,
                             flights |-> run.flights, hotels |-> run.hotels,
                             aiSummary |-> run.aiSummary]
          ELSE UNCHANGED <<dbSearches, saving>>
    /\ UNCHANGED <<dbItineraries, generating, genResponse>>
    /\ generateFixed

\* part_004:164-178  the two json.Marshal and SaveItinerary of a SearchHandler
SearchSaveItinerary ==
    /\ saving.pc = "save_itinerary"
    /\ LET flightsJSON == Marshal(saving.flights, FlightFields)
           hotelsJSON == Marshal(saving.hotels, HotelFields)
       IN  \E saved \in BOOLEAN :
              dbItineraries' =
                  IF saved
                  THEN dbItineraries \cup
                           {ItineraryRow([ID |-> NewItineraryID,
                                          SearchID |-> saving.searchID,
                                          FlightsJSON |-> flightsJSON,
                                          HotelsJSON |-> hotelsJSON,
                                          AISummary |-> saving.aiSummary,
                                          PDFData |-> NoPDF, TravelerName |-> ""])}
                  ELSE dbItineraries
    /\ saving' = NotSaving
    /\ UNCHANGED <<dbSearches, generating, genResponse>>
    /\ generateFixed

\* BoundsCheck with a plausible fault: > in place of >=
BoundsCheckOffByOne(idx, length) == IF idx < 0 \/ idx > length THEN 0 ELSE idx

\* itinerary.go:63-68  the selected index after the bounds check
BoundsCheck(idx, length) == IF idx < 0 \/ idx >= length THEN 0 ELSE idx

\* itinerary.go:70-71  list[idx] of a slice: the Go run time panics outside it
IndexInRange(idx, list) == 0 <= idx /\ idx < Len(list)
GeneratePanic == [status |-> 500, error |-> "panic: runtime error: index out of range"]

\* itinerary.go:76-87  the PDFData GeneratePDFBytes renders (part_002:26)
GeneratePDFBytes(search, travelerName, flight, hotel, summary) ==
    LET nights == search.ReturnDate - search.DepartureDate
    IN  [pages |-> 1, TravelerName |-> travelerName, Origin |-> search.Origin,
         Destination |-> search.Destination, DepartureDate |-> search.DepartureDate,
         ReturnDate |-> search.ReturnDate, Flight |-> flight, Hotel |-> hotel,
         NumNights |-> nights, TotalCost |-> flight.Price + hotel.Price * nights,
         AISummary |-> summary]

\* itinerary.go:29-96  ShouldBindJSON, GetSearch, GetItineraryBySearchID, the two
\* json.Unmarshal, the bounds check, the two selections and GeneratePDFBytes.
\* The two reads are one step: rows are only ever added, so a row another
\* handler adds between them shows as if it came before both or after both.
GenerateLoad(r) ==
    /\ generating.pc = "idle"
    /\ RoomForItinerary
    /\ LET found == GetItineraryBySearchID(r.SearchID)
           fail(status, error) ==
               /\ genResponse' = [status |-> status, error |-> error]
               /\ UNCHANGED generating
       IN  IF r.SearchID = NoID THEN fail(400, "Invalid request")
           ELSE IF GetSearch(r.SearchID) = {} THEN fail(404, "Search session not found")
           ELSE IF found = {} THEN fail(404, "Itinerary data not found")
           ELSE \E search \in GetSearch(r.SearchID), itinerary \in found,
                   rendered \in BOOLEAN :
                  LET fl == Unmarshal(itinerary.FlightsJSON, FlightFields)
                      ho == Unmarshal(itinerary.HotelsJSON, HotelFields)
                      fi == BoundsCheck(r.SelectedFlightIndex, Len(fl.list))
                      hi == BoundsCheck(r.SelectedHotelIndex, Len(ho.list))
                  IN  IF fl.err # "" THEN fail(500, "Failed to parse cached flight data")
                      ELSE IF ho.err # ""
                      THEN fail(500, "Failed to parse cached hotel data")
                      ELSE IF ~IndexInRange(fi, fl.list) \/ ~IndexInRange(hi, ho.list)
                      THEN /\ genResponse' = GeneratePanic
                           /\ UNCHANGED generating
                      ELSE IF ~rendered THEN fail(500, "Failed to generate PDF")
                      ELSE /\ generating' =
                                 [pc |-> "save", asked |-> r,
                                  req |-> [r EXCEPT !.SelectedFlightIndex = fi,
                                                    !.SelectedHotelIndex = hi],
                                  search |-> search,
                                  itinerary |-> itinerary,
                                  pdfBytes |-> GeneratePDFBytes(
                                      search, r.TravelerName,
                                      fl.list[fi + 1], ho.list[hi + 1],
                                      itinerary.AISummary)]
                           /\ UNCHANGED genResponse
    /\ UNCHANGED <<dbSearches, dbItineraries, saving>>
    /\ generateFixed

\* NewItinerary with a plausible fault: the new record keeps the selected
\* flight only
NewItinerarySelectedOnly(g) ==
    [ID |-> NewItineraryID, SearchID |-> g.req.SearchID,
     FlightsJSON |-> Marshal(<<g.pdfBytes.Flight>>, FlightFields),
     HotelsJSON |-> g.itinerary.HotelsJSON, AISummary |-> g.itinerary.AISummary,
     PDFData |-> g.pdfBytes, TravelerName |-> g.req.TravelerName]

\* itinerary.go:99-109  newItin
NewItinerary(g) ==
    [ID |-> NewItineraryID, SearchID |-> g.req.SearchID,
     FlightsJSON |-> g.itinerary.FlightsJSON, HotelsJSON |-> g.itinerary.HotelsJSON,
     AISummary |-> g.itinerary.AISummary, PDFData |-> g.pdfBytes,
     TravelerName |-> g.req.TravelerName]

\* itinerary.go:99-123  SaveItinerary of the new record and the response
GenerateSaveItinerary ==
    /\ generating.pc = "save"
    /\ \E saved \in BOOLEAN :
          IF saved
          THEN /\ dbItineraries' = dbItineraries \cup {ItineraryRow(NewItinerary(generating))}
               /\ genResponse' = [status |-> 200, ItineraryID |-> NewItineraryID]
          ELSE /\ UNCHANGED dbItineraries
               /\ genResponse' = [status |-> 500, error |-> "Failed to save generated PDF"]
    /\ generating' = NotGenerating
    /\ UNCHANGED <<dbSearches, saving>>
    /\ generateFixed

\* time passes between the database calls; NOW() reads this clock
DbElapse ==
    /\ now < MaxDbTime
    /\ now' = now + 1
    /\ UNCHANGED <<clientVars, providerExpiry, handlerVars, callerVars, fnVars, dbVars>>

NextGenerate ==
    \/ SearchSaveSearch
    \/ SearchSaveItinerary
    \/ \E r \in GenerateRequests : GenerateLoad(r)
    \/ GenerateSaveItinerary
    \/ DbElapse

SpecGenerate == Init /\ [][NextGenerate]_vars

(***************************************************************************)
(* Properties of SearchHandler (specification Spec).                       *)
(***************************************************************************)
\* the handler is past its flights leg, past its hotels leg
PastFlights == pc \in {"hotels", "hl_token", "hl_send", "ho_token", "ho_send",
                       "recommend", "persist", "done"}
PastHotels == pc \in {"recommend", "persist", "done"}

\* SearchFlights, SearchHotels was called and returned no error and a non-empty list
FlightsCameLive ==
    flightsCall.called /\ flightsCall.err = "" /\ Len(flightsCall.list) > 0
HotelsCameLive ==
    hotelsCall.called /\ hotelsCall.err = "" /\ Len(hotelsCall.list) > 0

\* the synthesized lists of the current request
SynthFlights ==
    GenerateFlightsFallback(req.Origin, req.Destination, req.DepartureDate, req.ReturnDate)
SynthHotels == GenerateHotelsFallback(req.Destination)

\* the outbound requests of the current search request that went to `to`
SentTo(to) == {i \in 1..Len(reqLog) : reqLog[i].to = to}

Answered == pc = "done" /\ response.status = 200

\* C1: the source tag of a response is "live" if and only if its flights are the
\* list a successful, non-empty live flight search returned and its hotels are
\* the list a successful, non-empty live hotel search returned; in every other
\* case the tag is "estimated".
C1_SourceLiveIffBothLive ==
    Answered =>
        /\ response.Source \in {"live", "estimated"}
        /\ response.Source = "live" <=>
              /\ FlightsCameLive /\ response.Flights = flightsCall.list
              /\ HotelsCameLive /\ response.Hotels = hotelsCall.list
        /\ (FlightsCameLive /\ ~HotelsCameLive) => response.Source = "estimated"

\* a response tagged "live", both lists non-empty
C1_Witness ==
    /\ Answered
    /\ response.Source = "live"
    /\ Len(response.Flights) > 0
    /\ Len(response.Hotels) > 0

\* C2: once the flights of a request were synthesized, SearchHotels is never
\* called for that request, no hotel-list or hotel-offers request is sent, and
\* the hotels are those of GenerateHotelsFallback.
C2_NoLiveHotelsAfterSynthFlights ==
    (PastFlights /\ ~FlightsCameLive) =>
        /\ ~hotelsCall.called
        /\ SentTo("hotel-list") = {}
        /\ SentTo("hotel-offers") = {}
        /\ pc \notin {"hl_token", "hl_send", "ho_token", "ho_send"}
        /\ PastHotels => hotels = SynthHotels

\* a configured client whose flight search answered with no usable offer: the
\* request was answered without any hotel request
C2_Witness ==
    /\ Answered
    /\ clientID # ""
    /\ flightsCall.called /\ flightsCall.err = "" /\ flightsCall.list = <<>>
    /\ SentTo("flight-offers") # {}
    /\ response.Hotels = SynthHotels

\* C3: for a resource whose live call was made, the outcome is the live list
\* exactly when the call returned no error and a non-empty list; otherwise it is
\* the synthesized list and the data is marked estimated.
C3_LiveOrSynthesized ==
    /\ (PastFlights /\ flightsCall.called) =>
           IF FlightsCameLive
           THEN flights = flightsCall.list
           ELSE flights = SynthFlights /\ isFallback
    /\ (PastHotels /\ hotelsCall.called) =>
           IF HotelsCameLive
           THEN hotels = hotelsCall.list
           ELSE hotels = SynthHotels /\ isFallback /\ source = "estimated"

\* live flights kept, the hotel search failed and its hotels were synthesized
C3_Witness ==
    /\ PastHotels
    /\ FlightsCameLive /\ flights = flightsCall.list
    /\ hotelsCall.called /\ hotelsCall.err # ""
    /\ hotels = SynthHotels

\* one step of the handler inside a search request
HandlerStep ==
    \/ BeginFlights \/ GetToken \/ FlightOffers \/ BeginHotels \/ HotelList
    \/ HotelOffers \/ Recommend \/ Persist

\* C4: whatever the token exchange, the marketplace calls and the AI call do,
\* the handler goes on to its response, and the response is a failure only when
\* a save failed; otherwise it is 200 with flights, hotels, a source tag and a
\* non-empty recommendation.
C4_SearchNeverFailsOnProviders ==
    /\ (served > 0 /\ pc # "done") => ENABLED HandlerStep
    /\ pc = "done" =>
          \/ /\ response.status = 500
             /\ response.error \in {"Failed to save search", "Failed to save itinerary"}
          \/ /\ response.status = 200
             /\ Len(response.Flights) > 0
             /\ Len(response.Hotels) > 0
             /\ response.Source \in {"live", "estimated"}
             /\ response.AISummary.text # ""

\* a 200 response although the token exchange and the AI call both failed
C4_Witness ==
    /\ Answered
    /\ tok.called /\ tok.err # ""
    /\ apiKey # "" /\ aiCall.called /\ aiCall.err # ""
    /\ response.AISummary.text # ""

\* C5: when the client identifier or the client secret is missing, a search
\* request sends no token request and no marketplace request.
C5_NoLiveCallWithoutCredentials ==
    (clientID = "" \/ clientSecret = "") =>
        /\ SentTo("token") = {}
        /\ SentTo("flight-offers") = {}
        /\ SentTo("hotel-list") = {}
        /\ SentTo("hotel-offers") = {}

(***************************************************************************)
(* Properties of getToken (specification Spec: one caller at a time).      *)
(***************************************************************************)
TokenPcs == {"fl_token", "hl_token", "ho_token"}

\* this step is one call of getToken (the clock alone leaves pc where it is)
GetTokenStep == pc \in TokenPcs /\ pc' # pc

\* C6: with a non-empty cached token, getToken exchanges when the provider
\* expiry (issue time + expires_in) is 29 seconds ahead, and returns the cached
\* token without an exchange when it is 31 seconds ahead.
C6_MarginAroundProviderExpiry ==
    [][(GetTokenStep /\ accessToken # "") =>
          /\ providerExpiry = now + 29 => tok'.exchanged
          /\ providerExpiry = now + 31 =>
                (~tok'.exchanged /\ tok'.err = "" /\ tok'.token = accessToken)]_vars

\* C7: when the clock is exactly at the provider expiry minus the margin,
\* getToken refreshes instead of returning the cached token.
C7_RefreshAtTheMargin ==
    [][(GetTokenStep /\ accessToken # "" /\ now = providerExpiry - TokenMargin) =>
          tok'.exchanged]_vars

\* C8: a getToken that has just returned without error returned a non-empty
\* token, and the clock is before the provider expiry of that token minus the
\* margin.
C8_ReturnedTokenIsValid ==
    (pc \in {"fl_send", "hl_send", "ho_send"} /\ tok.called /\ tok.err = "") =>
        /\ tok.token # ""
        /\ now < providerExpiry - TokenMargin

\* C10: when the exchange of a getToken fails, getToken returns an error and
\* no token, it has sent exactly one token request, and the cached token and
\* expiry are what they were.
C10_FailedExchangeLeavesCache ==
    [][(GetTokenStep /\ tok'.exchanged /\ ~ExchangeOK(tok'.answer)) =>
          /\ tok'.err # ""
          /\ tok'.token = ""
          /\ reqLog' = Append(reqLog, Sent("token", "", "", <<>>))
          /\ accessToken' = accessToken
          /\ tokenExpiry' = tokenExpiry]_vars

\* a getToken that failed over a cache holding an expired, non-empty token: the
\* token is still cached and the request went on with synthesized data
C10_Witness ==
    /\ pc \in {"hotels", "recommend"}
    /\ tok.called /\ tok.exchanged /\ tok.err # ""
    /\ accessToken # ""
    /\ TokenExpired(now, tokenExpiry)
    /\ Cardinality(SentTo("token")) = 1
    /\ isFallback

(***************************************************************************)
(* Properties of the cached pair under concurrent callers (specification   *)
(* SpecCallers).                                                           *)
(***************************************************************************)
\* the positions at which a caller reads or writes c.accessToken, c.tokenExpiry
FieldAccess == {"readExpiry", "readToken", "writeToken", "writeExpiry", "readToken2"}

\* C9: every read and write of the cached pair is made by the caller holding
\* the mutex; the token and the expiry a caller read were written by the same
\* exchange; and whenever the mutex is free the cached pair is whole.
C9_PairReadAndWrittenUnderMutex ==
    /\ \A p \in Callers : cpc[p] \in FieldAccess \cup {"unlock1", "unlock2", "unlock3"}
                              => mu = p
    /\ \A p \in Callers : cpc[p] = "unlock1" => cSeen[p].token = cSeen[p].expiry
    /\ mu = "free" => tokenWriter = expiryWriter
    /\ \A p \in Callers : cpc[p] \in {"readExpiry", "readToken"}
                              => tokenWriter = expiryWriter

\* a second refresh has written its token and not yet its expiry, while the
\* other caller waits for the mutex to read the pair
C9_Witness ==
    \E p \in Callers, q \in Callers :
        /\ p # q
        /\ cpc[p] = "writeExpiry"
        /\ tokenWriter = 2 /\ expiryWriter = 1
        /\ cpc[q] = "lock1"

(***************************************************************************)
(* Properties of the outbound requests of a search (specification Spec).   *)
(***************************************************************************)
Marketplace == {"flight-offers", "hotel-list", "hotel-offers"}

\* the position at which getToken is called for a request to `to`
TokenPcFor(to) ==
    CASE to = "flight-offers" -> "fl_token"
      [] to = "hotel-list" -> "hl_token"
      [] to = "hotel-offers" -> "ho_token"

\* this step sends one more request, to `to`
Sends(to) ==
    /\ Len(reqLog') = Len(reqLog) + 1
    /\ reqLog'[Len(reqLog')].to = to

\* C11: a marketplace request is sent only when the getToken called for it has
\* returned a token without error, and it carries that token; the hotel-offers
\* request has its own getToken, and a cached token that this getToken hands on
\* without an exchange is still usable, that is, the clock is before its
\* provider expiry minus the margin.
C11_TokenBeforeEveryRequest ==
    [][\A to \in Marketplace :
          Sends(to) =>
              /\ pc = SendPc(TokenPcFor(to))
              /\ tok.called /\ tok.err = "" /\ tok.at = TokenPcFor(to)
              /\ reqLog'[Len(reqLog')].bearer = tok.token
              /\ (to = "hotel-offers" /\ ~tok.exchanged)
                     => now < providerExpiry - TokenMargin]_vars

\* C12: within one search request each of the flight-offers, hotel-list,
\* hotel-offers and AI requests is sent at most once, and a token exchange is
\* never followed by another token exchange.
C12_NothingRetried ==
    /\ \A to \in Marketplace \cup {"ai"} : Cardinality(SentTo(to)) <= 1
    /\ \A i \in SentTo("token") : i < Len(reqLog) => reqLog[i + 1].to # "token"
    /\ Cardinality(SentTo("token")) <= 3

\* a search that sent every request once, each marketplace request after an
\* exchange of its own
C12_Witness ==
    /\ Answered
    /\ \A to \in Marketplace \cup {"ai"} : Cardinality(SentTo(to)) = 1
    /\ Cardinality(SentTo("token")) = 3

\* an answer of the AI provider that GetRecommendations turns into an error
AIFails(ans) ==
    \/ ans.neterr
    \/ ans.status # 200
    \/ ~ans.valid
    \/ Len(ans.data) = 0
    \/ ans.data[1] = ""

\* C18: when GetRecommendations returns an error - the key is unset, or the
\* provider's answer is a transport error, a status other than 200, an
\* unparsable body or no generated text - the recommendation of the handler and
\* of its response is FallbackRecommendation's output for the same budget,
\* flights, hotels and number of nights; with the key unset no AI request is
\* sent.
C18_AIErrorGivesFallbackText ==
    (pc \in {"persist", "done"}) =>
        /\ aiCall.called
        /\ (apiKey = "" \/ AIFails(aiCall.answer)) => aiCall.err # ""
        /\ apiKey = "" => SentTo("ai") = {}
        /\ aiCall.err # "" =>
              /\ aiSummary = FallbackRecommendation(req.Budget, flights, hotels,
                                                    numNights(req))
              /\ Answered => response.AISummary = aiSummary

\* the AI provider answered 200 with an empty generated text, and the response
\* carries the fallback recommendation
C18_Witness ==
    /\ Answered
    /\ apiKey # ""
    /\ SentTo("ai") # {}
    /\ aiCall.answer.status = 200 /\ aiCall.answer.valid
    /\ aiCall.answer.data = <<"">>
    /\ response.AISummary.text = "Best value picks"

(***************************************************************************)
(* Properties of the fallback synthesizer (specification SpecFunctions).   *)
(***************************************************************************)
Called(fn) == fnCall.fn = fn

\* C13: for all origin and destination codes and all valid dates with the
\* return after the departure, GenerateFlightsFallback returns exactly 5
\* offers, each with a price above 0.
C13_FiveFlightsPositivePrice ==
    Called("GenerateFlightsFallback") =>
        /\ fnCall.returnDate > fnCall.departureDate
        /\ Len(fnResult) = 5
        /\ \A i \in 1..Len(fnResult) : fnResult[i].Price > 0

\* the cheapest route of the table at its cheapest option: 80 * 0.65 = 52 -> 50
C13_Witness ==
    /\ Called("GenerateFlightsFallback")
    /\ fnCall.origin = "LHR" /\ fnCall.destination = "CDG"
    /\ fnResult[4].Price = 5000

\* C14: for every destination code, in the catalog or not, GenerateHotelsFallback
\* returns exactly 5 hotels, each with a price above 0 and a rating in [0, 5].
C14_FiveHotelsPriceAndRating ==
    Called("GenerateHotelsFallback") =>
        /\ Len(fnResult) = 5
        /\ \A i \in 1..Len(fnResult) :
              fnResult[i].Price > 0 /\ fnResult[i].Rating >= 0 /\ fnResult[i].Rating <= 500

(***************************************************************************)
(* Properties of FallbackRecommendation (specification SpecFunctions).     *)
(***************************************************************************)
\* the first element of a non-empty list whose price no other undercuts
FirstMin(list) ==
    list[CHOOSE i \in 1..Len(list) :
            /\ \A j \in 1..Len(list) : list[i].Price <= list[j].Price
            /\ \A j \in 1..(i - 1) : list[j].Price > list[i].Price]

\* the exact total of the picks, in hundredths
PickedTotal ==
    FirstMin(fnCall.flights).Price + FirstMin(fnCall.hotels).Price * fnCall.numNights

BothGiven == Called("FallbackRecommendation") /\ fnCall.flights # <<>> /\ fnCall.hotels # <<>>

\* the text names the first cheapest flight and the first cheapest hotel
PicksFirstCheapest ==
    /\ fnResult.text = "Best value picks"
    /\ fnResult.airline = FirstMin(fnCall.flights).Airline
    /\ fnResult.flightPrice = Fmt0(FirstMin(fnCall.flights).Price)
    /\ fnResult.hotel = FirstMin(fnCall.hotels).Name
    /\ fnResult.hotelPrice = Fmt0(FirstMin(fnCall.hotels).Price)
    /\ fnResult.nights = fnCall.numNights

\* C15 as stated: for non-empty lists the text names the first cheapest flight
\* and the first cheapest hotel, and the total it reports is the flight price
\* plus the hotel price times the number of nights.
C15_ReportsExactTotal ==
    BothGiven => PicksFirstCheapest /\ fnResult.total * 100 = PickedTotal

\* C15, amended: for non-empty lists the text names the first cheapest flight
\* and the first cheapest hotel, and the total it reports is the flight price
\* plus the hotel price times the number of nights, rounded to a whole currency
\* unit; for prices in whole units it is that sum itself.
C15_ReportsRoundedTotal ==
    BothGiven =>
        /\ PicksFirstCheapest
        /\ fnResult.total = Fmt0(PickedTotal)
        /\ PickedTotal % 100 = 0 => fnResult.total * 100 = PickedTotal

\* flights priced 500 and 300, hotels priced 100 and 80, 3 nights: 300 + 240 = 540
C15_Witness ==
    /\ Called("FallbackRecommendation")
    /\ fnCall.flights = <<FlightA, FlightB, FlightC>>
    /\ fnCall.hotels = <<HotelX, HotelY, HotelZ>>
    /\ fnCall.numNights = 3
    /\ fnResult.airline = "B" /\ fnResult.hotel = "Y" /\ fnResult.total = 540

\* the amount between the total and the budget, as %.0f prints it
Difference ==
    IF PickedTotal > fnCall.budget THEN Fmt0(PickedTotal - fnCall.budget)
    ELSE Fmt0(fnCall.budget - PickedTotal)

\* C16: the text says whether the total is within or over the budget and names
\* the difference in both cases: the amount over when the total exceeds the
\* budget, the amount to spare when it does not.
C16_NamesDifferenceBothWays ==
    BothGiven =>
        /\ fnResult.verdict = IF PickedTotal <= fnCall.budget THEN "fits" ELSE "exceeds"
        /\ fnResult.over = <<Difference>>

Parsed == Called("parseFlightOffers") /\ fnCall.data.valid

\* the offers of the body with an itinerary and a positive price, in the
\* provider's order
Keepable(offer) == Len(offer.Itineraries) >= 1 /\ parsePrice(offer.GrandTotal) > 0
KeptOffers == SelectSeq(fnCall.data.data, Keepable)

C20_ReturnFieldsPaired ==
    (Parsed /\ Len(fnResult.list) = Len(KeptOffers)) =>
        \A k \in 1..Len(fnResult.list) :
            LET f == fnResult.list[k]
            IN  /\ (f.ReturnDepartureTime # <<>> /\ f.ReturnArrivalTime # <<>>)
                       <=> f.ReturnDuration # <<>>
                /\ (f.ReturnDepartureTime # <<>>) <=> (f.ReturnArrivalTime # <<>>)
                /\ Len(KeptOffers[k].Itineraries) = 1 =>
                      /\ f.ReturnDepartureTime = <<>> /\ f.ReturnArrivalTime = <<>>
                      /\ f.ReturnDuration = <<>> /\ f.ReturnStops = 0

(***************************************************************************)
(* Properties of getHotelOffers (specification SpecFunctions).             *)
(***************************************************************************)
HotelsParsed == Called("getHotelOffers") /\ fnCall.data.valid

\* the items of the body that are available, carry an offer and a positive
\* price, in the provider's order
ItemKeepable(item) ==
    /\ item.Available
    /\ Len(item.Offers) >= 1
    /\ parsePrice(item.Offers[1].Total) > 0
KeptItems == SelectSeq(fnCall.data.data, ItemKeepable)

\* the rating the claim states for a provider's rating text
StatedRating(text) ==
    IF text = <<>> \/ ScanFloat(text) <= 0 THEN 400
    ELSE IF ScanFloat(text) > 500 THEN 500
    ELSE ScanFloat(text)

HoursText == Itoa(fnCall.hours) \o <<"h">>
MinutesText == Itoa(fnCall.minutes) \o <<"m">>

\* C23: parseDuration maps "PT<h>H<m>M" to "<h>h <m>m", "PT<h>H" to "<h>h",
\* "PT<m>M" to "<m>m" and the empty string to the empty string, for positive
\* hours and minutes.
C23_DurationRewritten ==
    Called("parseDuration") =>
        /\ (fnCall.hours > 0 /\ fnCall.minutes > 0)
              => fnResult = HoursText \o <<" ">> \o MinutesText
        /\ (fnCall.hours > 0 /\ fnCall.minutes = Absent) => fnResult = HoursText
        /\ (fnCall.hours = Absent /\ fnCall.minutes > 0) => fnResult = MinutesText
        /\ fnCall.iso = <<>> => fnResult = <<>>

\* "PT5H30M" gives "5h 30m"
C23_Witness ==
    /\ Called("parseDuration")
    /\ fnCall.iso = <<"P", "T", "5", "H", "3", "0", "M">>
    /\ fnResult = <<"5", "h", " ", "3", "0", "m">>

\* C24: a part whose value is zero is left out: "PT0H<m>M" gives "<m>m" and
\* "PT<h>H0M" gives "<h>h".
C24_ZeroPartOmitted ==
    Called("parseDuration") =>
        /\ (fnCall.hours = 0 /\ fnCall.minutes > 0) => fnResult = MinutesText
        /\ (fnCall.hours > 0 /\ fnCall.minutes = 0) => fnResult = HoursText

(***************************************************************************)
(* Properties of the synthesized prices (specification SpecFunctions).     *)
(***************************************************************************)
\* the route of a call: the entry of the table, or the baseline of 350 and 240
RouteOfCall ==
    LET key == fnCall.origin \o "-" \o fnCall.destination
    IN  IF key \in DOMAIN routes THEN routes[key] ELSE Route(350, 240)

\* base price times multiplier, rounded down to a multiple of 5; in hundredths
RoundedDownTo5(basePrice, priceMod) == ((basePrice * priceMod) \div 500) * 500

\* C26: for every route and each of the five airline profiles the synthesized
\* price is base price times the profile's multiplier rounded down to a multiple
\* of 5, the base being 350 and the duration 240 minutes for a route that is
\* not in the table (base 100 with multiplier 1.15 gives 115).
C26_PriceRoundedDownTo5 ==
    Called("GenerateFlightsFallback") =>
        \A n \in 1..Len(fnResult) :
            /\ fnResult[n].Price = RoundedDownTo5(RouteOfCall.basePrice, options[n].priceMod)
            /\ fnResult[n].Duration =
                  formatDurationMin(RouteOfCall.duration + IF options[n].stops > 0 THEN 90 ELSE 0)

(***************************************************************************)
(* Properties of the two-stage hotel search (specification Spec).          *)
(***************************************************************************)
\* the first min(n, 20) of the IDs the hotel-list answer carried
FirstIDs ==
    SubSeq(listedIDs, 1, IF Len(listedIDs) < MaxHotelIDs THEN Len(listedIDs) ELSE MaxHotelIDs)

\* a hotel-offers request is sent only after a hotel-list stage that returned at
\* least one ID, and carries the first min(n, 20) IDs in the order returned; a
\* hotel-list stage that failed or returned no ID is followed by no second request
OffersOnlyAfterIDs ==
    /\ \A i \in SentTo("hotel-offers") :
          /\ \E j \in SentTo("hotel-list") : j < i
          /\ listedIDs # <<>>
          /\ reqLog[i].ids = FirstIDs
    /\ (hotelsCall.called /\ hotelsCall.err \in {"hotel list failed", "no hotels found for city"})
          => SentTo("hotel-offers") = {}
    /\ SentTo("hotel-list") = {} => SentTo("hotel-offers") = {}

\* C21 as stated: the hotel-offers request is sent if and only if the hotel-list
\* stage succeeded and returned at least one hotel ID; with zero IDs the
\* operation fails without the second request; the second request carries the
\* first min(n, 20) IDs in the order the first stage returned them.
C21_OffersSentIffIDs ==
    /\ OffersOnlyAfterIDs
    /\ (PastHotels /\ listedIDs # <<>>) => SentTo("hotel-offers") # {}

\* C21, amended: the hotel-offers request is sent if and only if the hotel-list
\* stage succeeded and returned at least one hotel ID and the getToken called
\* for the second request returned a token; with zero IDs the operation fails
\* without the second request; the second request carries the first min(n, 20)
\* IDs in the order the first stage returned them.
C21_OffersSentIffIDsAndToken ==
    /\ OffersOnlyAfterIDs
    /\ (PastHotels /\ listedIDs # <<>>) =>
          /\ tok.at = "ho_token"
          /\ SentTo("hotel-offers") # {} <=> tok.err = ""

\* the hotel-list answer carried 21 IDs, the second request carries 20
C21_Witness ==
    /\ PastHotels
    /\ Len(listedIDs) = MaxHotelIDs + 1
    /\ \E i \in SentTo("hotel-offers") : Len(reqLog[i].ids) = MaxHotelIDs

\* C28: in every search outcome the flight list and the hotel list are both
\* non-empty, whatever the marketplace returns, and the recommendation is never
\* the fixed message of the empty-input guard.
C28_OutcomeListsNonEmpty ==
    /\ pc \in {"recommend", "persist", "done"} => (Len(flights) > 0 /\ Len(hotels) > 0)
    /\ pc \in {"persist", "done"} => aiSummary # Unable
    /\ Answered =>
          /\ Len(response.Flights) > 0 /\ Len(response.Hotels) > 0
          /\ response.AISummary # Unable

\* both live searches came back with nothing usable, the AI call failed, and
\* the response carries synthesized lists and a fallback recommendation
C28_Witness ==
    /\ Answered
    /\ flightsCall.called /\ flightsCall.err = "" /\ flightsCall.list = <<>>
    /\ aiCall.err # ""
    /\ Len(response.Flights) = 5 /\ Len(response.Hotels) = 5
    /\ response.AISummary.text = "Best value picks"

(***************************************************************************)
(* Properties of the stored expiry (specification SpecCallers) and of the  *)
(* mutex (specification SpecContention) under concurrent callers.          *)
(***************************************************************************)
\* C25: once a successful exchange has written the cache, the stored expiry is
\* the instant the token was issued plus expires_in minus the margin, whatever
\* time passed between the issue and the write under the mutex; it is never
\* later than the provider expiry minus the margin.
C25_ExpiryStampedAtIssue ==
    (mu = "free" /\ expiryWriter # 0) => tokenExpiry = providerExpiry - TokenMargin

\* the positions at which a caller holds the mutex
Holding == FieldAccess \cup {"unlock1", "unlock2", "unlock3"}

\* C27: the caller that holds the mutex is reading or writing the cached
\* fields or about to unlock, never in an exchange; a caller in an exchange
\* does not hold the mutex; the holder can always take its next step, so a
\* caller waiting for the mutex waits for field accesses only; and every
\* caller inside getToken can step, or waits for a holder that can.
C27_MutexHeldForFieldAccessOnly ==
    /\ \A p \in Callers : mu = p => cpc[p] \in Holding
    /\ \A p \in Callers : cpc[p] = "exchange" => mu # p
    /\ \A p \in Callers : mu = p => ENABLED CallerStep(p)
    /\ \A p \in Callers :
          cpc[p] \in {"lock1", "lock2", "lock3"} =>
              \/ ENABLED CallerStep(p)
              \/ \E q \in Callers : mu = q /\ q # p /\ ENABLED CallerStep(q)

\* both callers have gone into an exchange of their own, the mutex is free
C27_Witness ==
    /\ mu = "free"
    /\ \A p \in Callers : cpc[p] = "lock2"
    /\ exchanges = 2


(***************************************************************************)
(* Properties of GenerateHandler and the stored records (specification     *)
(* SpecGenerate).                                                          *)
(***************************************************************************)
\* the flights and the hotels a stored record caches, as GenerateHandler
\* decodes them
CachedFlights(i) == Unmarshal(i.FlightsJSON, FlightFields)
CachedHotels(i) == Unmarshal(i.HotelsJSON, HotelFields)

\* the index the handler is to use for a requested one
Chosen(asked, list) == IF 0 <= asked /\ asked < Len(list) THEN asked ELSE 0

SameCache(i, j) ==
    /\ i.FlightsJSON = j.FlightsJSON
    /\ i.HotelsJSON = j.HotelsJSON
    /\ i.AISummary = j.AISummary

\* the record SearchHandler stored for a search
IsOriginal(i) == i.PDFData = NoPDF

\* one step keeps every record as it was, adds at most one, and leaves every
\* record of a search with the cached data of the search's original record; a
\* generate request that succeeds adds exactly one, for its search
KeepsCachedData ==
    /\ dbItineraries \subseteq dbItineraries'
    /\ Cardinality(dbItineraries') <= Cardinality(dbItineraries) + 1
    /\ \A i \in dbItineraries' :
          \E o \in dbItineraries' :
              IsOriginal(o) /\ o.SearchID = i.SearchID /\ SameCache(i, o)
    /\ (generating.pc = "save" /\ generating'.pc = "idle" /\ genResponse'.status = 200) =>
          \E i \in dbItineraries' \ dbItineraries :
              /\ dbItineraries' = dbItineraries \cup {i}
              /\ i.SearchID = generating.req.SearchID
              /\ ~IsOriginal(i)
              /\ i.ID = genResponse'.ItineraryID

\* C30: after any number of generate requests every record stored for a search
\* ID carries the flights, hotels and recommendation text of the original
\* record; a generate request adds a new record and leaves the existing ones
\* unchanged.
C30_GenerateKeepsCachedData == [][KeepsCachedData]_vars

\* two generated records stand beside the original of their search
C30_Witness ==
    \E i, j \in dbItineraries :
        /\ i # j /\ i.SearchID = j.SearchID
        /\ ~IsOriginal(i) /\ ~IsOriginal(j)
        /\ \E o \in dbItineraries : IsOriginal(o) /\ o.SearchID = i.SearchID

====
